---- MODULE Spec2Model ----
(***************************************************************************)
(* The record-ingestion pipeline of the carbon credit registry.  The       *)
(* repository holds several variants of the same Streamlit application;    *)
(* one of them is deployed at a time.  The variable `variant` names the    *)
(* deployed file:                                                           *)
(*    "app"   src/app.py   (Supabase REST store, validate_csv_df, edit)     *)
(*    "app1"  src/app1.py  (sqlite store, ask_llm estimator)                *)
(*    "app2"  src/app2.py  lines 61-763 (Postgres store, run_ollama_*,     *)
(*                          est_cache, record hash)                         *)
(*    "app2b" src/app2.py  lines 769-1366 (Postgres store,                  *)
(*                          run_ollama_prompt_*, last_estimates)            *)
(*    "app3"  src/app3.py  (sqlite store, no validation)                    *)
(*    "app4"  src/app4.py  (sqlite store, no estimator)                     *)
(*                                                                         *)
(* Numbers are fixed-point integers counting ten-thousandths (Scale), so    *)
(* 100 ha is 1000000 and 0.0001 ha is 1.  Python values are tagged records: *)
(* Str(s), Num(n), NaNv (float nan, what pandas yields for an empty CSV     *)
(* cell), NoneV (None / SQL NULL) and Txt(cs), a text as a tuple of         *)
(* characters (the output of the text-generation backend, which the code    *)
(* scans character by character).                                           *)
(***************************************************************************)
EXTENDS Integers, Sequences, FiniteSets, TLC

VARIABLES
    variant,    \* which source file is deployed
    projects,   \* the rows of table `projects`
    next_id,    \* the next value of the id sequence (AUTOINCREMENT / SERIAL)
    est_cache,  \* st.session_state['est_cache'] of app2.py
    submitted,  \* how many rows have been submitted (forms and file rows)
    last,       \* what the last handler did and reported to its caller
    table_cols, \* the column names of table `projects`
    inits,      \* how many times the start-up code of the file has run
    run,        \* the import call in progress, row by row
    conn_tx,    \* the open transaction of the shared sqlite connection
    pc          \* where each caller of the shared connection stands

\* the start-up, the row loop and the shared connection: a handler taken as
\* one step leaves them alone
aside == <<table_cols, inits, run, conn_tx, pc>>

vars == <<variant, projects, next_id, est_cache, submitted, last, aside>>

----------------------------------------------------------------------------
(* Bounds of the model *)

\* rows submitted in one run, by the manual form and in uploaded files
\* (so the store hands out ids within 1..MaxSubmitted)
MaxSubmitted == 2
\* rows in one uploaded CSV file
MaxRows == 2

\* fixed-point: units per 1.0 (four decimal places)
Scale == 10000

----------------------------------------------------------------------------
(* Python values *)

Str(s) == [t |-> "str", s |-> s]
Num(n) == [t |-> "num", n |-> n]
Txt(cs) == [t |-> "txt", cs |-> cs]
\* a str holding the decimal text of the number n (a cell of a CSV column
\* that pandas read as text because another cell of it is no number)
NumStr(n) == [t |-> "numstr", n |-> n]
NaNv == [t |-> "nan"]
NoneV == [t |-> "none"]

IsNum(v) == v.t = "num"
IsStr(v) == v.t = "str"

\* bool(v), as `x or default` and `if not x` evaluate it
Truthy(v) ==
    CASE v.t = "none" -> FALSE
      [] v.t = "nan" -> TRUE
      [] v.t = "num" -> v.n # 0
      [] v.t = "str" -> v.s # ""
      [] v.t = "numstr" -> TRUE
      [] v.t = "txt" -> v.cs # <<>>

\* Python's `v or d`
PyOr(v, d) == IF Truthy(v) THEN v ELSE d

\* str.strip() on the strings of the model: none has inner+outer blanks,
\* so a string is either blank (strips to "") or unchanged
Blank == {"", " "}
Strip(s) == IF s \in Blank THEN "" ELSE s

\* str(v) for the values a text cell can hold
PyStr(v) ==
    CASE v.t = "str" -> v.s
      [] v.t = "nan" -> "nan"
      [] v.t = "none" -> "None"
      [] v.t \in {"num", "numstr"} -> ToString(v.n)
      [] v.t = "txt" -> "text"

\* float(v): [ok, v]; ok = FALSE when float() raises (None: TypeError,
\* a non-numeric string: ValueError)
PyFloat(v) ==
    CASE v.t = "num" -> [ok |-> TRUE, v |-> v]
      [] v.t = "numstr" -> [ok |-> TRUE, v |-> Num(v.n)]
      [] v.t = "nan" -> [ok |-> TRUE, v |-> NaNv]
      [] OTHER -> [ok |-> FALSE, v |-> NoneV]

\* pd.isna(v)
IsNa(v) == v.t \in {"nan", "none"}

\* `v <= 0` and `v > 0` raise TypeError unless v is a number
Comparable(v) == v.t \in {"num", "nan"}

\* `v <= 0` on a float: False for nan
Le0(v) == IsNum(v) /\ v.n <= 0
\* `v > 0` on a float: False for nan
Gt0(v) == IsNum(v) /\ v.n > 0
\* `v == 0.0` on a float
IsZero(v) == IsNum(v) /\ v.n = 0

\* a record holds a float nan somewhere
HasNaN(f) == \E k \in DOMAIN f : f[k].t = "nan"

----------------------------------------------------------------------------
(* Rounding and the credit formulas *)

\* n/d rounded to the nearest integer (ties up)
RoundDiv(n, d) == (2 * n + d) \div (2 * d)

\* round(x, 4) of x = n/10 units: the nearest unit
Round4(n10) == RoundDiv(n10, 10)
\* round(x, 2) of x = n/10 units: the nearest multiple of 100 units
Round2(n10) == 100 * RoundDiv(n10, 1000)

\* calculate_credits of app.py: round(0.5*area + 0.2*carbon, 4); arithmetic
\* on nan gives nan, and any exception (None operand) gives 0.0
app_calculate_credits(area, carbon) ==
    IF IsNum(area) /\ IsNum(carbon)
    THEN Num(Round4(5 * area.n + 2 * carbon.n))
    ELSE IF area.t \in {"num", "nan"} /\ carbon.t \in {"num", "nan"}
         THEN NaNv
         ELSE Num(0)

----------------------------------------------------------------------------
(* The store *)

Draft == "Draft"
Issued == "Issued"
Retired == "Retired"
StatusOptions == {Draft, Issued, Retired}

\* one row of table projects; a column the variant's table lacks is NoneV
Row(id, nm, ty, rg, ar, ca, cr, st, vf, ex, rh, oc) ==
    [id |-> id, name |-> nm, type |-> ty, region |-> rg, area_ha |-> ar,
     carbon_tonnes |-> ca, credits |-> cr, status |-> st, verified |-> vf,
     explanation |-> ex, record_hash |-> rh, onchain_status |-> oc]

Ids == 1..MaxSubmitted
HasId(P, id) == \E r \in P : r.id = id
ById(P, id) == CHOOSE r \in P : r.id = id

\* UPDATE projects SET <fields of u> WHERE id = id (no row: nothing changes)
UpdateWhere(P, id, u) ==
    {IF r.id = id THEN [k \in DOMAIN r |-> IF k \in DOMAIN u THEN u[k] ELSE r[k]]
     ELSE r : r \in P}

\* a DELETE written without its WHERE clause: every record goes
DeleteEvery(P, id) == {}

\* DELETE FROM projects WHERE id = id
DeleteWhere(P, id) == {r \in P : r.id # id}

\* A float nan cannot travel in the JSON body of a Supabase REST request: the
\* client or the server rejects the request and the call raises.
RestRejects(fields) == HasNaN(fields)

\* an insert that deduplicates: a project whose name, type, region, area and
\* carbon are already stored is not inserted again, the stored id is returned
app_db_add_project_once(P, nid, name, type_, region, area, carbon, status, dbok) ==
    LET credits == app_calculate_credits(PyOr(area, Num(0)), PyOr(carbon, Num(0)))
        new_project == Row(nid, name, type_, region, area, carbon, credits,
                           status, Str("Unverified"), NoneV, NoneV, NoneV)
        same == {r \in P : /\ r.name = name /\ r.type = type_
                            /\ r.region = region /\ r.area_ha = area
                            /\ r.carbon_tonnes = carbon}
    IN  IF ~dbok THEN [id |-> -1, P |-> P, nid |-> nid]
        ELSE IF same # {} THEN [id |-> (CHOOSE r \in same : TRUE).id, P |-> P, nid |-> nid]
        ELSE [id |-> nid, P |-> P \cup {new_project}, nid |-> nid + 1]

\* db_add_project of app.py: [id, P, nid]; id = -1 when the insert raised
app_db_add_project(P, nid, name, type_, region, area, carbon, status, dbok) ==
    LET credits == app_calculate_credits(PyOr(area, Num(0)), PyOr(carbon, Num(0)))
        new_project == Row(nid, name, type_, region, area, carbon, credits,
                           status, Str("Unverified"), NoneV, NoneV, NoneV)
        sent == [k \in DOMAIN new_project \ {"id"} |-> new_project[k]]
    IN  IF dbok /\ ~RestRejects(sent)
        THEN [id |-> nid, P |-> P \cup {new_project}, nid |-> nid + 1]
        ELSE [id |-> -1, P |-> P, nid |-> nid]

\* an update of the status written without its WHERE clause: every record
\* gets the status
app_db_update_status_all(P, proj_id, status, dbok) ==
    IF dbok THEN {[r EXCEPT !.status = status] : r \in P} ELSE P

\* db_update_status of app.py (an exception is shown and swallowed)
app_db_update_status(P, proj_id, status, dbok) ==
    IF dbok THEN UpdateWhere(P, proj_id, [status |-> status]) ELSE P

\* db_delete_project of app.py (an exception is shown and swallowed)
app_db_delete_project(P, proj_id, dbok) ==
    IF dbok THEN DeleteWhere(P, proj_id) ELSE P

\* an update of the fields that also writes the status back to Draft
app_db_update_project_draft(P, proj_id, updates, dbok) ==
    IF dbok /\ ~RestRejects(updates)
    THEN UpdateWhere(UpdateWhere(P, proj_id, updates), proj_id, [status |-> Str(Draft)])
    ELSE P

\* db_update_project of app.py (an exception is shown and swallowed)
app_db_update_project(P, proj_id, updates, dbok) ==
    IF dbok /\ ~RestRejects(updates) THEN UpdateWhere(P, proj_id, updates) ELSE P

\* db_update_verified_status of app.py
app_db_update_verified_status(P, proj_id, status, dbok) ==
    IF dbok THEN UpdateWhere(P, proj_id, [verified |-> status]) ELSE P

----------------------------------------------------------------------------
(* Uploaded CSV files *)

\* A DataFrame read from one CSV file: the column names it has and its rows.
\* A row maps every column of the file to the value pandas read for it.
RequiredSeq == <<"name", "type", "region", "area_ha">>
Required == {"name", "type", "region", "area_ha"}
TemplateCols == {"name", "type", "region", "area_ha", "carbon_tonnes"}
FullCols == TemplateCols \cup {"status"}
TitleCols == {"Name", "Type", "Region", "Area_ha", "Carbon_tonnes"}
ColumnSets ==
    {FullCols, TemplateCols, FullCols \ {"name"}, FullCols \ {"area_ha"},
     TitleCols}

\* the logical field a column name stands for
Field(col) ==
    CASE col \in {"name", "Name"} -> "name"
      [] col \in {"type", "Type"} -> "type"
      [] col \in {"region", "Region"} -> "region"
      [] col \in {"area_ha", "Area_ha"} -> "area_ha"
      [] col \in {"carbon_tonnes", "Carbon_tonnes"} -> "carbon_tonnes"
      [] OTHER -> "status"

RawRow(nm, ty, rg, ar, ca, st) ==
    [name |-> nm, type |-> ty, region |-> rg, area_ha |-> ar,
     carbon_tonnes |-> ca, status |-> st]

\* the cell contents the model draws rows from, in the order of a master
\* sheet; an uploaded file is a run of consecutive rows of it
RawRows ==
    << RawRow(Str("A"), Str("Mangrove"), Str("India"), Num(1), Num(3), Str(Draft)),
       RawRow(Str("A"), Str("Mangrove"), Str("India"), Num(100 * Scale), Num(400 * Scale), Str(Draft)),
       RawRow(Str("B"), NaNv, Str("India"), Num(50 * Scale), Num(200 * Scale), Str(Draft)),
       RawRow(Str("A"), Str("Mangrove"), Str(" "), Num(100 * Scale), Num(400 * Scale), Str(Draft)),
       RawRow(Str("A"), Str("Mangrove"), Str("India"), NaNv, Num(400 * Scale), Str(Draft)),
       RawRow(Str("A"), Str("Mangrove"), Str("India"), Num(0), Num(400 * Scale), Str(Draft)),
       RawRow(Str("A"), Str("Mangrove"), Str("India"), Str("abc"), Num(400 * Scale), Str(Draft)),
       RawRow(Str("A"), Str("Mangrove"), Str("India"), Num(100 * Scale), NaNv, Str(Issued)),
       RawRow(Str("A"), Str("Mangrove"), Str("India"), Num(100 * Scale), NaNv, Str(Issued)),
       RawRow(Str("A"), Str("Mangrove"), Str("India"), Num(100 * Scale), Num(400 * Scale), Str("Pending")),
       RawRow(Str("A"), Str("Mangrove"), Str("India"), Num(100 * Scale), Num(-400 * Scale), Str(Draft)) >>

\* pd.read_csv on one cell: a numeric column with a cell that is no number
\* is read as text, so its numbers arrive as str (empty cells stay nan)
ReadCell(v, textColumn) == IF textColumn /\ v.t = "num" THEN NumStr(v.n) ELSE v

\* the DataFrame row of a file with columns cols whose cells are those of raw
DfRow(cols, raw, textColumns) ==
    [c \in cols |-> ReadCell(raw[Field(c)], Field(c) \in textColumns)]

\* the file with columns cols holding rows first..first+n-1 of the sheet
File(cols, first, n) ==
    LET textColumns ==
            {f \in {"area_ha", "carbon_tonnes"} :
                \E i \in 1..n : RawRows[first + i - 1][f].t = "str"}
    IN  [cols |-> cols,
         rows |-> [i \in 1..n |-> DfRow(cols, RawRows[first + i - 1], textColumns)]]

\* files with every column, and files with another header for the first rows
Batches ==
    {File(FullCols, first, n) : first \in 1..(Len(RawRows) - MaxRows + 1), n \in 1..MaxRows}
    \cup {File(cs, 1, n) : cs \in ColumnSets, n \in 1..MaxRows}

\* row.get(col, default)
Get(row, col, default) == IF col \in DOMAIN row THEN row[col] ELSE default

\* the rows of the file fit in the run
RoomFor(df) == submitted + Len(df.rows) <= MaxSubmitted

\* the outcomes to consider for an external call: all of S when the call
\* is made, one (it is not used) when the handler makes no call
OutcomesFor(called, S) == IF called THEN S ELSE {CHOOSE o \in S : TRUE}

\* some row of the file has no carbon value
LacksCarbon(df) ==
    \E i \in 1..Len(df.rows) : IsNa(Get(df.rows[i], "carbon_tonnes", NoneV))

\* the inserts of one import that raise: none, or the one of a single row
FailSets(df) == {{}} \cup {{i} : i \in 1..Len(df.rows)}

\* The Validator contract of the specification, used only to observe a
\* handler: the row has non-empty name, type and region after trimming and
\* an area_ha that parses to a number > 0.  An empty CSV cell (nan) and an
\* absent column count as empty.  Columns are taken by the field they stand
\* for, whatever the capitalisation of the header.
HasField(row, f) == \E c \in DOMAIN row : Field(c) = f
FieldOf(row, f) == row[CHOOSE c \in DOMAIN row : Field(c) = f]
TextPresent(row, f) ==
    /\ HasField(row, f)
    /\ IsStr(FieldOf(row, f))
    /\ Strip(FieldOf(row, f).s) # ""
ContractValid(row) ==
    /\ TextPresent(row, "name")
    /\ TextPresent(row, "type")
    /\ TextPresent(row, "region")
    /\ HasField(row, "area_ha")
    /\ PyFloat(FieldOf(row, "area_ha")).ok
    /\ Gt0(PyFloat(FieldOf(row, "area_ha")).v)

\* the row has a name, type or region cell that is empty after trimming
EmptyText(row) ==
    \E f \in {"name", "type", "region"} : HasField(row, f) /\ ~TextPresent(row, f)

\* the carbon_tonnes the row supplies when it is a number > 0, else 0
SuppliedCarbon(row) ==
    IF /\ HasField(row, "carbon_tonnes")
       /\ PyFloat(FieldOf(row, "carbon_tonnes")).ok
       /\ Gt0(PyFloat(FieldOf(row, "carbon_tonnes")).v)
    THEN PyFloat(FieldOf(row, "carbon_tonnes")).v.n
    ELSE 0

\* the columns a file must have: name, type, region and area_ha, spelled as
\* the deployed variant reads them
RequiredColumns ==
    IF variant = "app3" THEN {"Name", "Type", "Region", "Area_ha"} ELSE Required

\* the file lacks a required column
LacksColumn(df) == RequiredColumns \ df.cols # {}

----------------------------------------------------------------------------
(* What a handler did, as its caller can observe it *)

\* one submitted row: valid under the Validator contract or not, whether a
\* text cell of it is empty, how the handler left it ("persisted",
\* "rejected", "failed"), and the id stored
RowReport(row, out, id) ==
    [valid |-> ContractValid(row), textless |-> EmptyText(row), out |-> out,
     id |-> id, supplied |-> SuppliedCarbon(row)]

\* one numeric estimate requested by a handler: for which row and key
\* (area, type, region), whether the external call was made (FALSE: served
\* from the cache), whether that call gave no usable number, the fallback
\* area * 4.0, the number returned, and the explanation produced (NoneV:
\* none was produced)
EstReport(row, key, external, failed, fallback, val, expl) ==
    [row |-> row, key |-> key, external |-> external, failed |-> failed,
     fallback |-> fallback, val |-> val, expl |-> expl, origin |-> key]

\* an estimate served from the session cache: origin is the request
\* (area_ha, type, region) for which the served pair was computed
Served(est, origin) == [est EXCEPT !.origin = origin]

\* no uploaded file
NoFile == [cols |-> {}, rows |-> <<>>]

NoReport ==
    [op |-> "none", rows |-> <<>>, added |-> 0, skipped |-> 0, errors |-> <<>>,
     ests |-> <<>>, shown |-> "none", aborted |-> FALSE, fault |-> FALSE,
     lacking |-> FALSE, calls |-> {}, target |-> 0, found |-> FALSE,
     file |-> NoFile, repeat |-> FALSE]

Report(op, rows, added, skipped, errors, ests, shown, aborted) ==
    [op |-> op, rows |-> rows, added |-> added, skipped |-> skipped,
     errors |-> errors, ests |-> ests, shown |-> shown, aborted |-> aborted,
     fault |-> FALSE, lacking |-> FALSE,
     calls |-> {ests[i].row : i \in {j \in DOMAIN ests : ests[j].external}},
     target |-> 0, found |-> FALSE, file |-> NoFile, repeat |-> FALSE]

\* a report of a handler that also ran the backend for the rows of S; calls
\* is the set of rows for which the handler made an external call
WithCalls(report, S) == [report EXCEPT !.calls = @ \cup S]

\* a report with what the run injected: fault, a storage call of the handler
\* raised; lacking, the uploaded file lacks a required column
Observed(report, fault, lacking) ==
    [report EXCEPT !.fault = fault, !.lacking = lacking]

\* a report of an import of the file df: repeat, the handler before it was an
\* import of the same file
FromFile(df, report) ==
    [report EXCEPT !.file = df, !.repeat = (last.op = "import" /\ last.file = df)]

\* a report of a handler that works on the record with one id: target, the
\* id; found, a record with that id was stored when the handler started;
\* fault, the storage call of the handler raised
Targeted(report, id, found, fault) ==
    [report EXCEPT !.target = id, !.found = found, !.fault = fault]

----------------------------------------------------------------------------
(* Texts: what the text-generation backend and its failures produce.  A    *)
(* text is a tuple of one-character strings.                               *)

\* a backend answer that is one number
\* "350"
T_number ==
    <<"3","5","0">>

\* a backend answer with a number in a sentence
\* "About 350.5 tonnes."
T_sentence ==
    <<"A","b","o","u","t"," ","3","5","0",".","5"," ","t","o","n","n","e",
      "s",".">>

\* a backend answer without any number
\* "I cannot estimate that."
T_words ==
    <<"I"," ","c","a","n","n","o","t"," ","e","s","t","i","m","a","t","e",
      " ","t","h","a","t",".">>

\* a backend answer that is a negative number
\* "-120"
T_negative ==
    <<"-","1","2","0">>

\* a backend answer that is only a line break
T_blank ==
    <<"\n">>

\* stderr of a CLI that rejects its arguments
\* "Error: unknown flag: --prompt"
T_unknown_flag ==
    <<"E","r","r","o","r",":"," ","u","n","k","n","o","w","n"," ","f","l",
      "a","g",":"," ","-","-","p","r","o","m","p","t">>

\* str(FileNotFoundError) when the executable is missing
\* "[Errno 2] No such file or directory: 'ollama'"
T_errno2 ==
    <<"[","E","r","r","n","o"," ","2","]"," ","N","o"," ","s","u","c","h",
      " ","f","i","l","e"," ","o","r"," ","d","i","r","e","c","t","o","r",
      "y",":"," ","'","o","l","l","a","m","a","'">>

\* str(PermissionError) when the executable cannot be run
\* "[Errno 13] Permission denied: 'ollama'"
T_errno13 ==
    <<"[","E","r","r","n","o"," ","1","3","]"," ","P","e","r","m","i","s",
      "s","i","o","n"," ","d","e","n","i","e","d",":"," ","'","o","l","l",
      "a","m","a","'">>

\* str(subprocess.TimeoutExpired) for the command of ask_llm
\* "Command '['ollama', 'run', 'phi3:mini']' timed out after 15 seconds"
T_timeout_app1 ==
    <<"C","o","m","m","a","n","d"," ","'","[","'","o","l","l","a","m","a",
      "'",","," ","'","r","u","n","'",","," ","'","p","h","i","3",":","m",
      "i","n","i","'","]","'"," ","t","i","m","e","d"," ","o","u","t"," ",
      "a","f","t","e","r"," ","1","5"," ","s","e","c","o","n","d","s">>

\* pieces of the f-string of ask_llm
\* "[LLM Error: "
T_llm_error_open ==
    <<"[","L","L","M"," ","E","r","r","o","r",":"," ">>

\* "]"
T_close_bracket ==
    <<"]">>

\* pieces of the f-strings of run_ollama_text
\* "(LLM error: "
T_paren_error ==
    <<"(","L","L","M"," ","e","r","r","o","r",":"," ">>

\* "(LLM exception: "
T_paren_exception ==
    <<"(","L","L","M"," ","e","x","c","e","p","t","i","o","n",":"," ">>

\* ")"
T_close_paren ==
    <<")">>

\* "unknown"
T_unknown ==
    <<"u","n","k","n","o","w","n">>

\* the fixed messages of run_ollama_text
\* "(LLM returned no output)"
T_no_output ==
    <<"(","L","L","M"," ","r","e","t","u","r","n","e","d"," ","n","o"," ",
      "o","u","t","p","u","t",")">>

\* "(Ollama CLI not found - install ollama locally)"
T_cli_not_found ==
    <<"(","O","l","l","a","m","a"," ","C","L","I"," ","n","o","t"," ","f",
      "o","u","n","d"," ","-"," ","i","n","s","t","a","l","l"," ","o","l",
      "l","a","m","a"," ","l","o","c","a","l","l","y",")">>

\* "(LLM timed out)"
T_timed_out ==
    <<"(","L","L","M"," ","t","i","m","e","d"," ","o","u","t",")">>

Digits == {"0", "1", "2", "3", "4", "5", "6", "7", "8", "9"}
Whitespace == {" ", "\n", "\t"}

DigitVal(c) ==
    CASE c = "0" -> 0 [] c = "1" -> 1 [] c = "2" -> 2 [] c = "3" -> 3
      [] c = "4" -> 4 [] c = "5" -> 5 [] c = "6" -> 6 [] c = "7" -> 7
      [] c = "8" -> 8 [] c = "9" -> 9

\* the integer a run of digits denotes
RECURSIVE NatOf(_)
NatOf(cs) ==
    IF cs = <<>> THEN 0
    ELSE 10 * NatOf(SubSeq(cs, 1, Len(cs) - 1)) + DigitVal(cs[Len(cs)])

\* the fixed-point value of the fraction 0.cs (digits beyond the fourth are
\* below the resolution of the model)
FracOf(cs) ==
    (IF Len(cs) >= 1 THEN 1000 * DigitVal(cs[1]) ELSE 0)
    + (IF Len(cs) >= 2 THEN 100 * DigitVal(cs[2]) ELSE 0)
    + (IF Len(cs) >= 3 THEN 10 * DigitVal(cs[3]) ELSE 0)
    + (IF Len(cs) >= 4 THEN DigitVal(cs[4]) ELSE 0)

\* the last index of the longest run of characters of S starting at i
\* (i - 1 when cs[i] is not in S)
RunEnd(cs, i, S) ==
    CHOOSE j \in (i - 1)..Len(cs) :
        /\ \A k \in i..j : cs[k] \in S
        /\ j = Len(cs) \/ cs[j + 1] \notin S

\* the last index of the longest run of characters outside S starting at i
RunEndOutside(cs, i, S) ==
    CHOOSE j \in (i - 1)..Len(cs) :
        /\ \A k \in i..j : cs[k] \notin S
        /\ j = Len(cs) \/ cs[j + 1] \in S

\* str.strip(): without the characters of S at both ends
StripChars(cs, S) ==
    IF \A k \in 1..Len(cs) : cs[k] \in S THEN <<>>
    ELSE LET a == CHOOSE i \in 1..Len(cs) :
                    cs[i] \notin S /\ \A k \in 1..(i - 1) : cs[k] \in S
             b == CHOOSE i \in 1..Len(cs) :
                    cs[i] \notin S /\ \A k \in (i + 1)..Len(cs) : cs[k] \in S
         IN  SubSeq(cs, a, b)

\* re.search(r"\d+(\.\d+)?", cs) and float() of the match:
\* [found, val]; the first digit run, with a fraction when one follows
re_search_number(cs) ==
    IF \A k \in 1..Len(cs) : cs[k] \notin Digits
    THEN [found |-> FALSE, val |-> 0]
    ELSE LET i == CHOOSE i \in 1..Len(cs) :
                    cs[i] \in Digits /\ \A k \in 1..(i - 1) : cs[k] \notin Digits
             j == RunEnd(cs, i, Digits)
             hasFrac == j + 2 <= Len(cs) /\ cs[j + 1] = "." /\ cs[j + 2] \in Digits
             k == RunEnd(cs, j + 2, Digits)
         IN  [found |-> TRUE,
              val |-> NatOf(SubSeq(cs, i, j)) * Scale
                      + (IF hasFrac THEN FracOf(SubSeq(cs, j + 2, k)) ELSE 0)]

\* float(tok) of a text: [ok, val].  An optional sign, digits and at most
\* one point with a digit on either side of it; anything else raises.
\* (The texts of the model hold no exponent, "nan" or "inf".)
float_of_text(tok) ==
    LET signed == tok # <<>> /\ tok[1] \in {"+", "-"}
        body == IF signed THEN SubSeq(tok, 2, Len(tok)) ELSE tok
        points == {i \in 1..Len(body) : body[i] = "."}
        p == IF points = {} THEN Len(body) + 1 ELSE CHOOSE i \in points : TRUE
        mag == NatOf(SubSeq(body, 1, p - 1)) * Scale
               + FracOf(SubSeq(body, p + 1, Len(body)))
    IN  IF /\ Cardinality(points) <= 1
           /\ \A i \in 1..Len(body) : body[i] \in Digits \cup {"."}
           /\ \E i \in 1..Len(body) : body[i] \in Digits
        THEN [ok |-> TRUE, val |-> IF signed /\ tok[1] = "-" THEN 0 - mag ELSE mag]
        ELSE [ok |-> FALSE, val |-> 0]

\* txt.replace(",", " ").split(): the maximal runs without whitespace, in order
Tokens(cs) ==
    LET Sep == Whitespace \cup {","}
        starts == {i \in 1..Len(cs) : cs[i] \notin Sep /\ (i = 1 \/ cs[i - 1] \in Sep)}
        nth(n) == CHOOSE i \in starts : Cardinality({x \in starts : x < i}) = n - 1
    IN  [n \in 1..Cardinality(starts) |->
            SubSeq(cs, nth(n), RunEndOutside(cs, nth(n), Sep))]

----------------------------------------------------------------------------
(* The external text-generation call and the estimators *)

\* how one subprocess.run of the backend CLI ends
Completed(returncode, stdout, stderr) ==
    [kind |-> "completed", returncode |-> returncode, stdout |-> stdout,
     stderr |-> stderr]
NotFound == [kind |-> "notfound"]
TimedOut == [kind |-> "timeout"]
Denied == [kind |-> "denied"]

\* what the backend does in the runs of the model
App1NumberOutcomes ==
    {Completed(0, T_number, <<>>), Completed(0, T_sentence, <<>>),
     Completed(0, T_words, <<>>), Completed(1, T_blank, T_unknown_flag),
     NotFound, TimedOut}
App1ExplainOutcomes ==
    {Completed(0, T_words, <<>>), Completed(0, T_blank, <<>>), NotFound}
App2NumberOutcomes ==
    {Completed(0, T_number, <<>>), Completed(0, T_words, <<>>),
     Completed(0, T_blank, <<>>), Completed(1, <<>>, T_unknown_flag),
     NotFound, TimedOut, Denied}
App2ExplainOutcomes == {Completed(0, T_words, <<>>), TimedOut}

\* the call failed, timed out, or answered without any number in its output
FailedOrNumberless(outcome) ==
    \/ outcome.kind # "completed"
    \/ outcome.returncode # 0
    \/ \A k \in 1..Len(outcome.stdout) : outcome.stdout[k] \notin Digits

\* FailedOrNumberless, tabulated over the outcomes of the model
NoUsableNumber ==
    [o \in App1NumberOutcomes \cup App2NumberOutcomes |-> FailedOrNumberless(o)]

\* ask_llm of app1.py: the stripped stdout, or the exception in brackets
ask_llm(outcome) ==
    CASE outcome.kind = "completed" -> StripChars(outcome.stdout, Whitespace)
      [] outcome.kind = "notfound" -> T_llm_error_open \o T_errno2 \o T_close_bracket
      [] outcome.kind = "denied" -> T_llm_error_open \o T_errno13 \o T_close_bracket
      [] outcome.kind = "timeout" ->
            T_llm_error_open \o T_timeout_app1 \o T_close_bracket

\* the response and the regex match of ask_llm_number, per outcome
ask_llm_response == [o \in App1ExplainOutcomes |-> ask_llm(o)]
ask_llm_match == [o \in App1NumberOutcomes |-> re_search_number(ask_llm(o))]

\* ask_llm_number of app1.py
ask_llm_number(outcome, fallback) ==
    LET match == ask_llm_match[outcome]
    IN  IF match.found THEN match.val ELSE fallback

\* run_ollama_text of app2.py
run_ollama_text(outcome) ==
    CASE outcome.kind = "completed" ->
            LET out == StripChars(outcome.stdout, Whitespace)
                err == StripChars(outcome.stderr, Whitespace)
            IN  IF outcome.returncode # 0
                THEN T_paren_error \o (IF err # <<>> THEN err ELSE T_unknown)
                     \o T_close_paren
                ELSE IF out # <<>> THEN out
                ELSE IF err # <<>> THEN err
                ELSE T_no_output
      [] outcome.kind = "notfound" -> T_cli_not_found
      [] outcome.kind = "timeout" -> T_timed_out
      [] outcome.kind = "denied" -> T_paren_exception \o T_errno13 \o T_close_paren

\* the characters run_ollama_number strips from both ends of a token
TokenStrip == {".", ",", ":", ";", "(", ")", "[", "]", "\"", "'"}

\* the token loop of run_ollama_number: the first token that float()
\* accepts, [found, val]
first_float_token(txt) ==
    LET tokens == Tokens(txt)
        val(n) == float_of_text(StripChars(StripChars(tokens[n], Whitespace), TokenStrip))
        hits == {n \in 1..Len(tokens) : val(n).ok}
    IN  IF hits = {} THEN [found |-> FALSE, val |-> 0]
        ELSE [found |-> TRUE, val |-> val(CHOOSE n \in hits : \A m \in hits : n <= m).val]

\* the text and the parsed token of run_ollama_number, per outcome
run_ollama_reply == [o \in App2ExplainOutcomes |-> run_ollama_text(o)]
run_ollama_parsed == [o \in App2NumberOutcomes |-> first_float_token(run_ollama_text(o))]

\* run_ollama_number of app2.py
run_ollama_number(outcome, fallback) ==
    LET hit == run_ollama_parsed[outcome]
    IN  IF hit.found THEN hit.val ELSE fallback

----------------------------------------------------------------------------
(* src/app.py *)

\* one iteration of the row loop of validate_csv_df:
\* [clean, rec] for a cleaned row, [clean = FALSE, reason] for an error
app_validate_row(row) ==
    LET name == Strip(PyStr(Get(row, "name", Str(""))))
        type_ == Strip(PyStr(Get(row, "type", Str(""))))
        region == Strip(PyStr(Get(row, "region", Str(""))))
        area == PyFloat(PyOr(Get(row, "area_ha", Num(0)), Num(0)))
        carbon == PyFloat(PyOr(Get(row, "carbon_tonnes", Num(0)), Num(0)))
        status == PyOr(Get(row, "status", Str(Draft)), Str(Draft))
    IN  IF ~area.ok \/ ~carbon.ok
        THEN [clean |-> FALSE, reason |-> "parsing error"]
        ELSE IF name = "" \/ type_ = "" \/ region = ""
        THEN [clean |-> FALSE, reason |-> "missing required text fields"]
        ELSE IF Le0(area.v)
        THEN [clean |-> FALSE, reason |-> "area_ha must be > 0"]
        ELSE [clean |-> TRUE,
              rec |-> [name |-> Str(name), type |-> Str(type_),
                       region |-> Str(region), area |-> area.v,
                       carbon |-> carbon.v, status |-> status]]

\* the missing-column check of validate_csv_df: one error per missing column
app_missing_columns(df) ==
    LET Missing(col) == col \notin df.cols
        cols == SelectSeq(RequiredSeq, Missing)
    IN  [i \in 1..Len(cols) |-> <<cols[i], "Missing required column">>]

\* validate_csv_df: [clean, errors]; clean keeps the index of each row
app_validate_csv_df(df) ==
    IF app_missing_columns(df) # <<>>
    THEN [clean |-> <<>>, errors |-> app_missing_columns(df)]
    ELSE LET res == [i \in 1..Len(df.rows) |-> app_validate_row(df.rows[i])]
             F[i \in 0..Len(df.rows)] ==
                IF i = 0 THEN [clean |-> <<>>, errors |-> <<>>]
                ELSE IF res[i].clean
                     THEN [clean |-> Append(F[i-1].clean, [idx |-> i, rec |-> res[i].rec]),
                           errors |-> F[i-1].errors]
                     ELSE [clean |-> F[i-1].clean,
                           errors |-> Append(F[i-1].errors, <<i - 1, res[i].reason>>)]
         IN  F[Len(df.rows)]

\* what the forms let an operator type
ManualNames == {"A", ""}
ManualTypes == {"Mangrove"}
ManualRegions == {"India"}
ManualAreas == {0, 100 * Scale}
ManualCarbons == {0, 400 * Scale}
EditAreas == {0, 50 * Scale}
EditCarbons == {200 * Scale}

\* "Add project (manual)" of admin_dashboard
app_manual_entry(name, type_, region, area, carbon, status_select, dbok) ==
    LET raw == RawRow(Str(name), Str(type_), Str(region), Num(area), Num(carbon),
                      Str(status_select))
        r == app_db_add_project(projects, next_id, Str(name), Str(type_),
                                Str(region), Num(area),
                                PyOr(Num(carbon), Num(0)), Str(status_select), dbok)
    IN  IF name = "" \/ type_ = "" \/ region = "" \/ area <= 0
        THEN /\ last' = Observed(Report("manual", <<RowReport(raw, "rejected", 0)>>,
                               0, 0, <<>>, <<>>, "error", FALSE), ~dbok, FALSE)
             /\ UNCHANGED <<projects, next_id>>
        ELSE /\ projects' = r.P
             /\ next_id' = r.nid
             /\ last' = Observed(Report("manual",
                               <<RowReport(raw,
                                           IF r.id = -1 THEN "failed" ELSE "persisted",
                                           r.id)>>,
                               0, 0, <<>>, <<>>,
                               IF r.id # 0 THEN "success" ELSE "none", FALSE), ~dbok, FALSE)

App_ManualEntry ==
    /\ variant = "app"
    /\ submitted < MaxSubmitted
    /\ submitted' = submitted + 1
    /\ \E name \in ManualNames, type_ \in ManualTypes, region \in ManualRegions,
          area \in ManualAreas, carbon \in ManualCarbons,
          status_select \in StatusOptions, dbok \in BOOLEAN :
            app_manual_entry(name, type_, region, area, carbon, status_select, dbok)
    /\ UNCHANGED <<variant, aside, est_cache>>

\* the loop of "Confirm & Import all valid rows" over the cleaned rows;
\* fails: the rows (by index) whose insert raises.
\* [P, nid, imported, rows] after the first i cleaned rows
RECURSIVE app_import_rows(_, _, _, _, _)
app_import_rows(clean, i, P, nid, fails) ==
    IF i = 0 THEN [P |-> P, nid |-> nid, imported |-> 0, ids |-> <<>>]
    ELSE LET before == app_import_rows(clean, i - 1, P, nid, fails)
             rec == clean[i].rec
             status_v == PyOr(rec.status, Str(Draft))
             r == app_db_add_project(before.P, before.nid, rec.name, rec.type,
                                     rec.region, rec.area, rec.carbon, status_v,
                                     clean[i].idx \notin fails)
         IN  [P |-> r.P, nid |-> r.nid, imported |-> before.imported + 1,
              ids |-> Append(before.ids, r.id)]

\* the reports of the rows of df, given the cleaned rows and the ids stored
app_row_reports(df, clean, ids) ==
    [i \in 1..Len(df.rows) |->
        IF \E j \in 1..Len(clean) : clean[j].idx = i
        THEN LET j == CHOOSE j \in 1..Len(clean) : clean[j].idx = i
             IN  RowReport(df.rows[i],
                           IF ids[j] = -1 THEN "failed" ELSE "persisted", ids[j])
        ELSE RowReport(df.rows[i], "rejected", 0)]

\* upload of one CSV file followed by "Confirm & Import all valid rows"
app_confirm_import(df, fails) ==
    LET v == app_validate_csv_df(df)
        r == app_import_rows(v.clean, Len(v.clean), projects, next_id, fails)
    IN  /\ projects' = r.P
        /\ next_id' = r.nid
        /\ last' = FromFile(df, Observed(Report("import", app_row_reports(df, v.clean, r.ids),
                                       r.imported, Len(v.errors), v.errors, <<>>, "success",
                                       FALSE), fails # {}, LacksColumn(df)))

App_ConfirmImport ==
    /\ variant = "app"
    /\ \E df \in Batches : \E fails \in FailSets(df) :
            /\ RoomFor(df)
            /\ submitted' = submitted + Len(df.rows)
            /\ app_confirm_import(df, fails)
    /\ UNCHANGED <<variant, aside, est_cache>>

\* "Apply status" of admin_dashboard
App_ApplyStatus ==
    /\ variant = "app"
    /\ \E row \in projects, new_status \in StatusOptions, dbok \in BOOLEAN :
        /\ Str(new_status) # row.status
        /\ projects' = app_db_update_status(projects, row.id, Str(new_status), dbok)
        /\ last' = Targeted(Report("status", <<>>, 0, 0, <<>>, <<>>, "success", FALSE), row.id, HasId(projects, row.id), ~dbok)
    /\ UNCHANGED <<variant, aside, next_id, est_cache, submitted>>

\* "Delete" of admin_dashboard
App_Delete ==
    /\ variant = "app"
    /\ \E id \in Ids, dbok \in BOOLEAN :
        /\ projects' = app_db_delete_project(projects, id, dbok)
        /\ last' = Targeted(Report("delete", <<>>, 0, 0, <<>>, <<>>, "success", FALSE), id, HasId(projects, id), ~dbok)
    /\ UNCHANGED <<variant, aside, next_id, est_cache, submitted>>

\* "Save changes" written without the recalculation of the credits: the
\* edited fields are stored, the credits stay as they were
app_save_changes_stale(row, edit_name, edit_type, edit_region, edit_area, edit_carbon, dbok) ==
    LET updates == [name |-> Str(edit_name), type |-> Str(edit_type),
                    region |-> Str(edit_region), area_ha |-> Num(edit_area),
                    carbon_tonnes |-> Num(edit_carbon)]
    IN  /\ projects' = app_db_update_project(projects, row.id, updates, dbok)
        /\ last' = Targeted(Report("edit", <<>>, 0, 0, <<>>, <<>>, "success", FALSE), row.id, HasId(projects, row.id), ~dbok)

\* "Edit" then "Save changes" of admin_dashboard
app_save_changes(row, edit_name, edit_type, edit_region, edit_area, edit_carbon, dbok) ==
    LET new_credits == app_calculate_credits(Num(edit_area), Num(edit_carbon))
        updates == [name |-> Str(edit_name), type |-> Str(edit_type),
                    region |-> Str(edit_region), area_ha |-> Num(edit_area),
                    carbon_tonnes |-> Num(edit_carbon), credits |-> new_credits]
    IN  /\ projects' = app_db_update_project(projects, row.id, updates, dbok)
        /\ last' = Targeted(Report("edit", <<>>, 0, 0, <<>>, <<>>, "success", FALSE), row.id, HasId(projects, row.id), ~dbok)

App_SaveChanges ==
    /\ variant = "app"
    /\ \E row \in projects, edit_area \in EditAreas, edit_carbon \in EditCarbons,
          dbok \in BOOLEAN :
            app_save_changes(row, row.name.s, row.type.s, row.region.s,
                             edit_area, edit_carbon, dbok)
    /\ UNCHANGED <<variant, aside, next_id, est_cache, submitted>>

\* "Verify" / "Unverify" of verifier_dashboard
App_Verify ==
    /\ variant = "app"
    /\ \E id \in Ids, status \in {"Verified", "Unverified"}, dbok \in BOOLEAN :
        /\ projects' = app_db_update_verified_status(projects, id, Str(status), dbok)
        /\ last' = Targeted(Report("verify", <<>>, 0, 0, <<>>, <<>>, "success", FALSE), id, HasId(projects, id), ~dbok)
    /\ UNCHANGED <<variant, aside, next_id, est_cache, submitted>>

NextApp ==
    \/ App_ManualEntry
    \/ App_ConfirmImport
    \/ App_ApplyStatus
    \/ App_Delete
    \/ App_SaveChanges
    \/ App_Verify

----------------------------------------------------------------------------
(* src/app1.py *)

\* sqlite3 binds a float nan as NULL
SqliteBind(v) == IF v.t = "nan" THEN NoneV ELSE v

\* calculate_credits of app1.py: round(area*0.5 + carbon*0.2, 2)
app1_calculate_credits(area, carbon) ==
    IF IsNum(area) /\ IsNum(carbon)
    THEN Num(Round2(5 * area.n + 2 * carbon.n))
    ELSE NaNv

\* add_project on a table whose id is a plain INTEGER PRIMARY KEY, without
\* AUTOINCREMENT: the id is the largest stored id plus one
app1_add_project_rowid(P, nid, name, type_, region, area, carbon, dbok) ==
    LET rowid == IF P = {} THEN 1
                 ELSE 1 + (CHOOSE m \in {r.id : r \in P} : \A r \in P : r.id <= m)
        credits == app1_calculate_credits(area, carbon)
        new == Row(rowid, SqliteBind(name), SqliteBind(type_), SqliteBind(region),
                   SqliteBind(area), SqliteBind(carbon), SqliteBind(credits),
                   Str(Issued), NoneV, NoneV, NoneV, NoneV)
    IN  IF dbok
        THEN [ok |-> TRUE, P |-> P \cup {new}, nid |-> nid + 1, id |-> rowid]
        ELSE [ok |-> FALSE, P |-> P, nid |-> nid, id |-> 0]

\* add_project of app1.py: [ok, P, nid, id]; ok = FALSE when the INSERT raised
app1_add_project(P, nid, name, type_, region, area, carbon, dbok) ==
    LET credits == app1_calculate_credits(area, carbon)
        new == Row(nid, SqliteBind(name), SqliteBind(type_), SqliteBind(region),
                   SqliteBind(area), SqliteBind(carbon), SqliteBind(credits),
                   Str(Issued), NoneV, NoneV, NoneV, NoneV)
    IN  IF dbok
        THEN [ok |-> TRUE, P |-> P \cup {new}, nid |-> nid + 1, id |-> nid]
        ELSE [ok |-> FALSE, P |-> P, nid |-> nid, id |-> 0]

\* delete_project of app1.py: the DELETE is committed when it hit one row
app1_delete_project(P, proj_id, dbok) ==
    IF dbok /\ Cardinality({r \in P : r.id = proj_id}) = 1
    THEN DeleteWhere(P, proj_id)
    ELSE P

\* update_status of app1.py
app1_update_status(P, proj_id, status, dbok) ==
    IF dbok THEN UpdateWhere(P, proj_id, [status |-> Str(status)]) ELSE P

\* "Add Project" of the manual form of app1.py
app1_manual_entry(name, type_, region, area, carbon, num, exp, dbok) ==
    LET raw == RawRow(Str(name), Str(type_), Str(region), Num(area), Num(carbon),
                      NoneV)
        estimate == carbon = 0
        fallback == 4 * area
        carbon_val == IF estimate THEN ask_llm_number(num, fallback) ELSE carbon
        r == app1_add_project(projects, next_id, Str(name), Str(type_),
                              Str(region), Num(area), Num(carbon_val), dbok)
        explanation == IF r.ok THEN Txt(ask_llm_response[exp]) ELSE NoneV
        ests == IF estimate
                THEN <<EstReport(1, <<Num(area), Str(type_), Str(region)>>, TRUE,
                                 NoUsableNumber[num], fallback, carbon_val,
                                 explanation)>>
                ELSE <<>>
    IN  IF name # "" /\ type_ # "" /\ region # "" /\ area > 0
        THEN /\ projects' = r.P
             /\ next_id' = r.nid
             /\ last' = WithCalls(
                    Observed(Report("manual",
                               <<RowReport(raw,
                                           IF r.ok THEN "persisted" ELSE "failed",
                                           r.id)>>,
                               0, 0, <<>>, ests,
                               IF r.ok THEN "success" ELSE "exception", ~r.ok), ~dbok, FALSE),
                    IF r.ok THEN {1} ELSE {})
        ELSE /\ last' = Observed(Report("manual", <<RowReport(raw, "rejected", 0)>>,
                               0, 0, <<>>, <<>>, "error", FALSE), ~dbok, FALSE)
             /\ UNCHANGED <<projects, next_id>>

App1_ManualEntry ==
    /\ variant = "app1"
    /\ submitted < MaxSubmitted
    /\ submitted' = submitted + 1
    /\ \E name \in ManualNames, type_ \in ManualTypes, region \in ManualRegions,
          area \in ManualAreas, carbon \in ManualCarbons, dbok \in BOOLEAN :
        \E num \in OutcomesFor(carbon = 0, App1NumberOutcomes),
           exp \in App1ExplainOutcomes :
            app1_manual_entry(name, type_, region, area, carbon, num, exp, dbok)
    /\ UNCHANGED <<variant, aside, est_cache>>

\* the state of a bulk loop before its first row
BulkStart(P, nid) ==
    [P |-> P, nid |-> nid, added |-> 0, skipped |-> 0, rows |-> <<>>,
     ests |-> <<>>, errors |-> <<>>, aborted |-> FALSE]

\* a bulk loop after a row that stored nothing
BulkSkip(acc, row, out, counted, warning) ==
    [acc EXCEPT !.rows = Append(@, RowReport(row, out, 0)),
                !.skipped = @ + (IF counted THEN 1 ELSE 0),
                !.errors = IF warning THEN Append(@, <<Len(acc.rows), out>>) ELSE @]

\* one iteration of the row loop of "Add All Projects" of app1.py
app1_bulk_row(acc, row, i, num, fails) ==
    LET area == Get(row, "area_ha", NoneV)
        carbon == Get(row, "carbon_tonnes", NoneV)
        estimate == IsNa(carbon)
        fallback == 4 * PyFloat(area).v.n
        carbon_val == IF estimate THEN Num(ask_llm_number(num, fallback))
                      ELSE PyFloat(carbon).v
        r == app1_add_project(acc.P, acc.nid, row["name"], row["type"],
                              row["region"], PyFloat(area).v, carbon_val,
                              i \notin fails)
    IN  IF {"name", "type", "region"} \ DOMAIN row # {}
        THEN BulkSkip(acc, row, "failed", FALSE, TRUE)
        ELSE IF IsNa(area)
        THEN BulkSkip(acc, row, "rejected", FALSE, TRUE)
        ELSE IF ~Comparable(area)
        THEN BulkSkip(acc, row, "failed", FALSE, TRUE)
        ELSE IF Le0(area)
        THEN BulkSkip(acc, row, "rejected", FALSE, TRUE)
        ELSE IF ~estimate /\ ~PyFloat(carbon).ok
        THEN BulkSkip(acc, row, "failed", FALSE, TRUE)
        ELSE LET done == IF r.ok
                         THEN [acc EXCEPT !.P = r.P, !.nid = r.nid,
                                          !.added = @ + 1,
                                          !.rows = Append(@, RowReport(row, "persisted", r.id))]
                         ELSE BulkSkip(acc, row, "failed", FALSE, TRUE)
             IN  IF estimate
                 THEN [done EXCEPT !.ests =
                         Append(@, EstReport(i, <<PyFloat(area).v, row["type"], row["region"]>>,
                                             TRUE, NoUsableNumber[num], fallback,
                                             carbon_val.n, NoneV))]
                 ELSE done

\* "Add All Projects" of app1.py on one uploaded file
app1_bulk_upload(df, num, fails) ==
    LET F[i \in 0..Len(df.rows)] ==
            IF i = 0 THEN BulkStart(projects, next_id)
            ELSE app1_bulk_row(F[i - 1], df.rows[i], i, num, fails)
        end == F[Len(df.rows)]
    IN  /\ projects' = end.P
        /\ next_id' = end.nid
        /\ last' = FromFile(df, Observed(Report("import", end.rows, end.added, end.skipped,
                          end.errors,
                          end.ests, "success", FALSE), fails # {}, LacksColumn(df)))

App1_BulkUpload ==
    /\ variant = "app1"
    /\ \E df \in Batches : \E fails \in FailSets(df),
                           num \in OutcomesFor(LacksCarbon(df), App1NumberOutcomes) :
            /\ RoomFor(df)
            /\ submitted' = submitted + Len(df.rows)
            /\ app1_bulk_upload(df, num, fails)
    /\ UNCHANGED <<variant, aside, est_cache>>

\* "Delete" of the project list of app1.py
App1_Delete ==
    /\ variant = "app1"
    /\ \E id \in Ids, dbok \in BOOLEAN :
        /\ projects' = app1_delete_project(projects, id, dbok)
        /\ last' = Targeted(Report("delete", <<>>, 0, 0, <<>>, <<>>,
                                   IF dbok THEN "success" ELSE "exception", ~dbok), id, HasId(projects, id), ~dbok)
    /\ UNCHANGED <<variant, aside, next_id, est_cache, submitted>>

\* "Retire" and "Issue" of the project list of app1.py
App1_UpdateStatus ==
    /\ variant = "app1"
    /\ \E row \in projects, status \in {Retired, Issued}, dbok \in BOOLEAN :
        /\ projects' = app1_update_status(projects, row.id, status, dbok)
        /\ last' = Targeted(Report("status", <<>>, 0, 0, <<>>, <<>>,
                                   IF dbok THEN "success" ELSE "exception", ~dbok), row.id, HasId(projects, row.id), ~dbok)
    /\ UNCHANGED <<variant, aside, next_id, est_cache, submitted>>

NextApp1 ==
    \/ App1_ManualEntry
    \/ App1_BulkUpload
    \/ App1_Delete
    \/ App1_UpdateStatus

----------------------------------------------------------------------------
(* src/app2.py, lines 61-763.  The anchoring of the manual form is modelled *)
(* by its effect on the store; the bulk loop runs without anchoring.       *)

\* st.session_state['est_cache'] after ensure_session_keys: an empty dict
EmptyCache == [k \in {} |-> NoneV]

\* safe_float of app2.py
safe_float(x, default) ==
    IF x.t = "none" THEN default
    ELSE IF PyFloat(x).ok THEN PyFloat(x).v ELSE default

\* what Postgres stores in a TEXT column for the value psycopg2 is handed
PgText(v) == IF v.t = "nan" THEN Str("NaN") ELSE v

\* compute_record_hash of app2.py: the "0x" SHA-256 digest of the canonical
\* JSON of the record, one value per record content
compute_record_hash(record) == [t |-> "hash", of |-> record]

\* db_add_project of app2.py: [ok, P, nid, id]; ok = FALSE when it raised
app2_db_add_project(P, nid, name, type_, region, area, carbon, explanation, dbok) ==
    LET credits == Num(Round2(5 * area.n + 2 * carbon.n))
        new == Row(nid, PgText(name), PgText(type_), PgText(region), area, carbon,
                   credits, Str(Issued), NoneV, explanation, NoneV, NoneV)
    IN  IF dbok
        THEN [ok |-> TRUE, P |-> P \cup {new}, nid |-> nid + 1, id |-> nid]
        ELSE [ok |-> FALSE, P |-> P, nid |-> nid, id |-> 0]

\* db_update_record_hash_and_onchain of app2.py (P unchanged when it raised)
db_update_record_hash_and_onchain(P, id_, record_hash, onchain_status, dbok) ==
    IF dbok
    THEN UpdateWhere(P, id_, [record_hash |-> record_hash,
                              onchain_status |-> onchain_status])
    ELSE P

\* db_delete_project of app2.py
app2_db_delete_project(P, id_, dbok) == IF dbok THEN DeleteWhere(P, id_) ELSE P

\* a status update that also clears the record hash, to have it recomputed
app2_db_update_status_rehash(P, id_, status, dbok) ==
    IF dbok
    THEN UpdateWhere(P, id_, [status |-> Str(status), record_hash |-> NoneV])
    ELSE P

\* db_update_status of app2.py
app2_db_update_status(P, id_, status, dbok) ==
    IF dbok THEN UpdateWhere(P, id_, [status |-> Str(status)]) ELSE P

\* how the two statements of one insertion end
DbOutcomes == {"ok", "insert raises", "hash update raises"}

\* the record that is hashed after the insert
HashedRecord(id, name, type_, region, area, carbon) ==
    [id |-> id, name |-> name, type |-> type_, region |-> region,
     area_ha |-> area, carbon_tonnes |-> carbon]

\* the estimate branch of the manual form of app2.py: the cached pair for
\* the key, or the result of the two external calls
app2_estimate(cache_key, request, fallback, num, exp) ==
    IF cache_key \in DOMAIN est_cache
    THEN [cached |-> TRUE, est_val |-> est_cache[cache_key].est_val,
          expl |-> est_cache[cache_key].expl,
          origin |-> est_cache[cache_key].origin]
    ELSE [cached |-> FALSE, est_val |-> Num(run_ollama_number(num, fallback)),
          expl |-> Txt(run_ollama_reply[exp]), origin |-> request]

\* est_cache after st.session_state['est_cache'][cache_key] = (est_val, expl);
\* origin notes the request the pair was computed for
CachePut(cache, cache_key, e) ==
    [k \in DOMAIN cache \cup {cache_key} |->
        IF k = cache_key
        THEN [est_val |-> e.est_val, expl |-> e.expl, origin |-> e.origin]
        ELSE cache[k]]

\* cache_key = f"{area}|{type_}|{region}"; the float is written by its
\* count of ten-thousandths
app2_cache_key(area, type_, region) ==
    ToString(area) \o "|" \o type_ \o "|" \o region

\* the anchoring branch of the manual form of app2.py: anchored, the box was
\* ticked, the transaction was sent and the update that notes it did not
\* raise; every other way through the branch leaves the store as it is
app2_anchor(P, new_id, rec_hash, anchored) ==
    IF anchored
    THEN db_update_record_hash_and_onchain(P, new_id, rec_hash, Str("pending"), TRUE)
    ELSE P

\* the end of the manual form of app2.py, after db_add_project returned r
app2_manual_stored(raw, r, rec_hash, ests, db, anchored) ==
    /\ projects' =
            IF r.ok
            THEN app2_anchor(
                    db_update_record_hash_and_onchain(
                        r.P, r.id, rec_hash, Str("not_anchored"),
                        db # "hash update raises"),
                    r.id, rec_hash, anchored)
            ELSE r.P
    /\ next_id' = r.nid
    /\ last' = Observed(Report("manual",
                      <<RowReport(raw,
                                  IF r.ok THEN "persisted" ELSE "failed", r.id)>>,
                      0, 0, <<>>, ests, IF r.ok THEN "success" ELSE "error", FALSE), db # "ok", FALSE)

\* the insertion of the manual form of app2.py
app2_manual_insert(raw, carbon_val, explanation, ests, db, anchored) ==
    app2_manual_stored(
        raw,
        app2_db_add_project(projects, next_id, raw.name, raw.type, raw.region,
                            raw.area_ha, carbon_val, explanation,
                            db # "insert raises"),
        compute_record_hash(
            HashedRecord(next_id, raw.name, raw.type, raw.region, raw.area_ha,
                         carbon_val)),
        ests, db, anchored)

\* the manual form of app2.py when carbon was left at 0: e is the estimate
app2_manual_estimated(raw, cache_key, e, failed, fallback, db, anchored) ==
    /\ est_cache' = IF e.cached THEN est_cache ELSE CachePut(est_cache, cache_key, e)
    /\ app2_manual_insert(
            raw, safe_float(e.est_val, Num(0)), e.expl,
            <<Served(EstReport(1, <<raw.area_ha, raw.type, raw.region>>,
                               ~e.cached, ~e.cached /\ failed, fallback,
                               safe_float(e.est_val, Num(0)).n, e.expl),
                     e.origin)>>,
            db, anchored)

\* "Add Project" of the manual form of app2.py
app2_manual_entry(name, type_, region, area, carbon, num, exp, db, anchored) ==
    LET raw == RawRow(Str(name), Str(type_), Str(region), Num(area), Num(carbon),
                      NoneV)
        cache_key == app2_cache_key(area, type_, region)
    IN  IF name = "" \/ type_ = "" \/ region = "" \/ area <= 0
        THEN /\ last' = Observed(Report("manual", <<RowReport(raw, "rejected", 0)>>,
                               0, 0, <<>>, <<>>, "error", FALSE), db # "ok", FALSE)
             /\ UNCHANGED <<projects, next_id, est_cache>>
        ELSE IF carbon = 0
        THEN app2_manual_estimated(raw, cache_key,
                                   app2_estimate(cache_key,
                                                 <<Num(area), Str(type_), Str(region)>>,
                                                 4 * area, num, exp),
                                   NoUsableNumber[num], 4 * area, db, anchored)
        ELSE /\ est_cache' = est_cache
             /\ app2_manual_insert(raw, safe_float(Num(carbon), Num(0)),
                                   Str("Carbon manually entered"), <<>>, db, anchored)

App2_ManualEntry ==
    /\ variant = "app2"
    /\ submitted < MaxSubmitted
    /\ submitted' = submitted + 1
    /\ \E name \in ManualNames, type_ \in ManualTypes, region \in ManualRegions,
          area \in ManualAreas, carbon \in ManualCarbons, db \in DbOutcomes :
        \E num \in OutcomesFor(carbon = 0, App2NumberOutcomes),
           exp \in OutcomesFor(carbon = 0, App2ExplainOutcomes),
           anchored \in BOOLEAN :
            app2_manual_entry(name, type_, region, area, carbon, num, exp, db, anchored)
    /\ UNCHANGED <<variant, aside>>

\* a row of "Add All Projects" of app2.py after db_add_project returned r
app2_bulk_stored(acc, row, r, rh, hashed) ==
    IF r.ok
    THEN [acc EXCEPT
            !.P = db_update_record_hash_and_onchain(
                      r.P, r.id, rh, Str("not_anchored"), hashed),
            !.nid = r.nid,
            !.added = @ + (IF hashed THEN 1 ELSE 0),
            !.skipped = @ + (IF hashed THEN 0 ELSE 1),
            !.rows = Append(@, RowReport(row, "persisted", r.id))]
    ELSE BulkSkip(acc, row, "failed", TRUE, FALSE)

\* the insertion of a row of "Add All Projects" of app2.py
app2_bulk_insert(acc, row, name, type_, region, area, carbon, explanation, fail) ==
    app2_bulk_stored(
        acc, row,
        app2_db_add_project(acc.P, acc.nid, name, type_, region, area, carbon,
                            explanation, fail # "insert raises"),
        compute_record_hash(HashedRecord(acc.nid, name, type_, region, area, carbon)),
        fail # "hash update raises")

\* a bulk loop after one more estimate
WithEstimate(acc, est) == [acc EXCEPT !.ests = Append(@, est)]

\* a row of "Add All Projects" of app2.py whose area passed the check
app2_bulk_accept(acc, row, i, name, type_, region, area, carbon, cval, expl, fallback, failed, fail) ==
    IF IsNa(carbon)
    THEN WithEstimate(
            app2_bulk_insert(acc, row, name, type_, region, area, cval, expl, fail),
            EstReport(i, <<area, type_, region>>, TRUE, failed, fallback, cval.n,
                      expl))
    ELSE IF ~PyFloat(carbon).ok
    THEN BulkSkip(acc, row, "failed", TRUE, FALSE)
    ELSE app2_bulk_insert(acc, row, name, type_, region, area, PyFloat(carbon).v,
                          Str(""), fail)

\* one iteration of the row loop of "Add All Projects" of app2.py
app2_bulk_row(acc, row, i, num, exp, fails, db) ==
    LET area == Get(row, "area_ha", NoneV) IN
    IF IsNa(area)
    THEN BulkSkip(acc, row, "rejected", TRUE, FALSE)
    ELSE IF ~PyFloat(area).ok
    THEN BulkSkip(acc, row, "failed", TRUE, FALSE)
    ELSE IF Le0(PyFloat(area).v)
    THEN BulkSkip(acc, row, "rejected", TRUE, FALSE)
    ELSE app2_bulk_accept(
            acc, row, i, Get(row, "name", NoneV), Get(row, "type", NoneV),
            Get(row, "region", NoneV), PyFloat(area).v,
            Get(row, "carbon_tonnes", NoneV),
            Num(run_ollama_number(num, 4 * PyFloat(area).v.n)),
            Txt(run_ollama_reply[exp]), 4 * PyFloat(area).v.n,
            NoUsableNumber[num], IF i \in fails THEN db ELSE "ok")

\* the end of an import: the store and the report after the last row
BulkDone(end, shown, fault, lacking, df) ==
    /\ projects' = end.P
    /\ next_id' = end.nid
    /\ last' = FromFile(df, Observed(Report("import", end.rows, end.added, end.skipped,
                      end.errors, end.ests, shown, end.aborted), fault, lacking))

\* "Add All Projects" of app2.py on one uploaded file
app2_bulk_upload(df, num, exp, fails, db) ==
    LET F[i \in 0..Len(df.rows)] ==
            IF i = 0 THEN BulkStart(projects, next_id)
            ELSE app2_bulk_row(F[i - 1], df.rows[i], i, num, exp, fails, db)
    IN  BulkDone(F[Len(df.rows)], "success", fails # {}, LacksColumn(df), df)

App2_BulkUpload ==
    /\ variant = "app2"
    /\ \E df \in Batches, db \in DbOutcomes \ {"ok"} :
        \E fails \in FailSets(df),
           num \in OutcomesFor(LacksCarbon(df), App2NumberOutcomes),
           exp \in OutcomesFor(LacksCarbon(df), App2ExplainOutcomes) :
            /\ RoomFor(df)
            /\ submitted' = submitted + Len(df.rows)
            /\ app2_bulk_upload(df, num, exp, fails, db)
    /\ UNCHANGED <<variant, aside, est_cache>>

\* "Delete" of the project list of app2.py
App2_Delete ==
    /\ variant = "app2"
    /\ \E id \in Ids, dbok \in BOOLEAN :
        /\ projects' = app2_db_delete_project(projects, id, dbok)
        /\ last' = Targeted(Report("delete", <<>>, 0, 0, <<>>, <<>>,
                                   IF dbok THEN "success" ELSE "error", FALSE), id, HasId(projects, id), ~dbok)
    /\ UNCHANGED <<variant, aside, next_id, est_cache, submitted>>

\* "Retire" and "Issue" of the project list of app2.py
App2_UpdateStatus ==
    /\ variant = "app2"
    /\ \E row \in projects, status \in {Retired, Issued}, dbok \in BOOLEAN :
        /\ projects' = app2_db_update_status(projects, row.id, status, dbok)
        /\ last' = Targeted(Report("status", <<>>, 0, 0, <<>>, <<>>,
                                   IF dbok THEN "success" ELSE "error", FALSE), row.id, HasId(projects, row.id), ~dbok)
    /\ UNCHANGED <<variant, aside, next_id, est_cache, submitted>>

NextApp2 ==
    \/ App2_ManualEntry
    \/ App2_BulkUpload
    \/ App2_Delete
    \/ App2_UpdateStatus

----------------------------------------------------------------------------
(* src/app2.py, lines 769-1366: the second application kept in the file    *)
(* (Postgres store, run_ollama_prompt_*, last_estimates)                   *)

\* pieces of the f-string of run_ollama_prompt_text
\* "(LLM failed to generate explanation: "
T_failed_open ==
    <<"(","L","L","M"," ","f","a","i","l","e","d"," ","t","o"," ","g","e",
      "n","e","r","a","t","e"," ","e","x","p","l","a","n","a","t","i","o",
      "n",":"," ">>

\* "unknown error"
T_unknown_error ==
    <<"u","n","k","n","o","w","n"," ","e","r","r","o","r">>

\* the fixed messages of run_ollama_prompt_text; the dash stands for U+2014
\* "(LLM returned empty explanation)"
T_empty_explanation ==
    <<"(","L","L","M"," ","r","e","t","u","r","n","e","d"," ","e","m","p",
      "t","y"," ","e","x","p","l","a","n","a","t","i","o","n",")">>

\* "(LLM timed out - used fallback explanation)"
T_timed_out_fallback ==
    <<"(","L","L","M"," ","t","i","m","e","d"," ","o","u","t"," ","-"," ",
      "u","s","e","d"," ","f","a","l","l","b","a","c","k"," ","e","x","p",
      "l","a","n","a","t","i","o","n",")">>

\* "(Ollama CLI not found - install ollama locally or use placeholder explanation)"
T_cli_not_found_placeholder ==
    <<"(","O","l","l","a","m","a"," ","C","L","I"," ","n","o","t"," ","f",
      "o","u","n","d"," ","-"," ","i","n","s","t","a","l","l"," ","o","l",
      "l","a","m","a"," ","l","o","c","a","l","l","y"," ","o","r"," ","u",
      "s","e"," ","p","l","a","c","e","h","o","l","d","e","r"," ","e","x",
      "p","l","a","n","a","t","i","o","n",")">>

\* run_ollama_prompt_text of app2.py
run_ollama_prompt_text(outcome) ==
    CASE outcome.kind = "completed" ->
            LET out == StripChars(outcome.stdout, Whitespace)
                err == StripChars(outcome.stderr, Whitespace)
            IN  IF outcome.returncode # 0
                THEN T_failed_open \o (IF err # <<>> THEN err ELSE T_unknown_error)
                     \o T_close_paren
                ELSE IF out # <<>> THEN out
                ELSE IF err # <<>> THEN err
                ELSE T_empty_explanation
      [] outcome.kind = "timeout" -> T_timed_out_fallback
      [] outcome.kind = "notfound" -> T_cli_not_found_placeholder
      [] outcome.kind = "denied" -> T_paren_error \o T_errno13 \o T_close_paren

\* the text and the parsed token of run_ollama_prompt_number, per outcome
run_ollama_prompt_reply ==
    [o \in App2ExplainOutcomes |-> run_ollama_prompt_text(o)]
run_ollama_prompt_parsed ==
    [o \in App2NumberOutcomes |-> first_float_token(run_ollama_prompt_text(o))]

\* run_ollama_prompt_number of app2.py
run_ollama_prompt_number(outcome, fallback) ==
    LET hit == run_ollama_prompt_parsed[outcome]
    IN  IF hit.found THEN hit.val ELSE fallback

\* safe_number of app2.py
safe_number(x, default) ==
    IF x.t = "none" THEN default
    ELSE IF PyFloat(x).ok THEN PyFloat(x).v ELSE default

\* calculate_credits of the second application: 0.0 when float() raises
app2b_calculate_credits(area, carbon) ==
    IF PyFloat(area).ok /\ PyFloat(carbon).ok
    THEN Num(Round2(5 * PyFloat(area).v.n + 2 * PyFloat(carbon).v.n))
    ELSE Num(0)

\* db_add_project of the second application: [ok, P, nid, id]
app2b_db_add_project(P, nid, name, type_, region, area, carbon, explanation, dbok) ==
    LET new == Row(nid, PgText(name), PgText(type_), PgText(region), area, carbon,
                   app2b_calculate_credits(area, carbon), Str(Issued), NoneV,
                   explanation, NoneV, NoneV)
    IN  IF dbok
        THEN [ok |-> TRUE, P |-> P \cup {new}, nid |-> nid + 1, id |-> nid]
        ELSE [ok |-> FALSE, P |-> P, nid |-> nid, id |-> 0]

\* db_delete_project of the second application
app2b_db_delete_project(P, proj_id, dbok) ==
    IF dbok THEN DeleteWhere(P, proj_id) ELSE P

\* db_update_status of the second application
app2b_db_update_status(P, proj_id, status, dbok) ==
    IF dbok THEN UpdateWhere(P, proj_id, [status |-> Str(status)]) ELSE P

\* what the manual form of the second application lets an operator type
ManualTypes2 == {"Mangrove", "Seagrass"}

\* cache_key = f"est_area_{area}"
app2b_cache_key(area) == "est_area_" \o ToString(area)

\* the estimate branch of the manual form: last_estimates and
\* last_explanations hold the pair of the key, or the two external calls run
app2b_estimate(cache_key, request, fallback, num, exp) ==
    IF cache_key \in DOMAIN est_cache
    THEN [cached |-> TRUE, est_val |-> est_cache[cache_key].est_val,
          expl |-> est_cache[cache_key].expl,
          origin |-> est_cache[cache_key].origin]
    ELSE [cached |-> FALSE,
          est_val |-> Num(run_ollama_prompt_number(num, fallback)),
          expl |-> Txt(run_ollama_prompt_reply[exp]), origin |-> request]

\* the end of the manual form, after db_add_project returned r
app2b_manual_stored(raw, r, ests, dbok) ==
    /\ projects' = r.P
    /\ next_id' = r.nid
    /\ last' = Observed(Report("manual",
                               <<RowReport(raw,
                                           IF r.ok THEN "persisted" ELSE "failed",
                                           r.id)>>,
                               0, 0, <<>>, ests,
                               IF r.ok THEN "success" ELSE "error", FALSE), ~dbok, FALSE)

\* the manual form when carbon was left at 0: e is the estimate
app2b_manual_estimated(raw, cache_key, e, failed, fallback, dbok) ==
    /\ est_cache' = IF e.cached THEN est_cache ELSE CachePut(est_cache, cache_key, e)
    /\ app2b_manual_stored(
            raw,
            app2b_db_add_project(projects, next_id, raw.name, raw.type,
                                 raw.region, raw.area_ha,
                                 safe_number(e.est_val, Num(0)), e.expl, dbok),
            <<Served(EstReport(1, <<raw.area_ha, raw.type, raw.region>>,
                               ~e.cached, ~e.cached /\ failed, fallback,
                               safe_number(e.est_val, Num(0)).n, e.expl),
                     e.origin)>>,
            dbok)

\* "Add Project" of the manual form of the second application
app2b_manual_entry(name, type_, region, area, carbon, num, exp, dbok) ==
    LET raw == RawRow(Str(name), Str(type_), Str(region), Num(area), Num(carbon),
                      NoneV)
    IN  IF name = "" \/ type_ = "" \/ region = "" \/ area <= 0
        THEN /\ last' = Observed(Report("manual", <<RowReport(raw, "rejected", 0)>>,
                               0, 0, <<>>, <<>>, "error", FALSE), ~dbok, FALSE)
             /\ UNCHANGED <<projects, next_id, est_cache>>
        ELSE IF carbon = 0
        THEN app2b_manual_estimated(
                raw, app2b_cache_key(area),
                app2b_estimate(app2b_cache_key(area),
                               <<Num(area), Str(type_), Str(region)>>,
                               4 * area, num, exp),
                NoUsableNumber[num], 4 * area, dbok)
        ELSE /\ est_cache' = est_cache
             /\ app2b_manual_stored(
                    raw,
                    app2b_db_add_project(projects, next_id, raw.name, raw.type,
                                         raw.region, raw.area_ha, Num(carbon),
                                         Str("Carbon manually entered"), dbok),
                    <<>>, dbok)

App2b_ManualEntry ==
    /\ variant = "app2b"
    /\ submitted < MaxSubmitted
    /\ submitted' = submitted + 1
    /\ \E name \in ManualNames, type_ \in ManualTypes2, region \in ManualRegions,
          area \in ManualAreas, carbon \in ManualCarbons, dbok \in BOOLEAN :
        \E num \in OutcomesFor(carbon = 0, App2NumberOutcomes),
           exp \in OutcomesFor(carbon = 0, App2ExplainOutcomes) :
            app2b_manual_entry(name, type_, region, area, carbon, num, exp, dbok)
    /\ UNCHANGED <<variant, aside>>

\* the insertion of a row of "Add All Projects" of the second application
app2b_bulk_insert(acc, row, r) ==
    IF r.ok
    THEN [acc EXCEPT !.P = r.P, !.nid = r.nid, !.added = @ + 1,
                     !.rows = Append(@, RowReport(row, "persisted", r.id))]
    ELSE BulkSkip(acc, row, "failed", TRUE, FALSE)

\* a row of "Add All Projects" whose area passed the check
app2b_bulk_accept(acc, row, i, name, type_, region, area, carbon, cval, expl, fallback, failed, dbok) ==
    IF IsNa(carbon)
    THEN WithEstimate(
            app2b_bulk_insert(
                acc, row,
                app2b_db_add_project(acc.P, acc.nid, name, type_, region, area,
                                     cval, expl, dbok)),
            EstReport(i, <<area, type_, region>>, TRUE, failed, fallback, cval.n,
                      expl))
    ELSE IF ~PyFloat(carbon).ok
    THEN BulkSkip(acc, row, "failed", TRUE, FALSE)
    ELSE app2b_bulk_insert(
            acc, row,
            app2b_db_add_project(acc.P, acc.nid, name, type_, region, area,
                                 PyFloat(carbon).v, Str(""), dbok))

\* one iteration of the row loop of "Add All Projects" of the second
\* application
app2b_bulk_row(acc, row, i, num, exp, fails) ==
    LET area == Get(row, "area_ha", NoneV) IN
    IF IsNa(area)
    THEN BulkSkip(acc, row, "rejected", TRUE, TRUE)
    ELSE IF ~Comparable(area)
    THEN BulkSkip(acc, row, "failed", TRUE, FALSE)
    ELSE IF Le0(area)
    THEN BulkSkip(acc, row, "rejected", TRUE, TRUE)
    ELSE app2b_bulk_accept(
            acc, row, i, Get(row, "name", NoneV), Get(row, "type", NoneV),
            Get(row, "region", NoneV), PyFloat(area).v,
            Get(row, "carbon_tonnes", NoneV),
            Num(run_ollama_prompt_number(num, 4 * PyFloat(area).v.n)),
            Txt(run_ollama_prompt_reply[exp]), 4 * PyFloat(area).v.n,
            NoUsableNumber[num], i \notin fails)

\* "Add All Projects" of the second application on one uploaded file
app2b_bulk_upload(df, num, exp, fails) ==
    LET F[i \in 0..Len(df.rows)] ==
            IF i = 0 THEN BulkStart(projects, next_id)
            ELSE app2b_bulk_row(F[i - 1], df.rows[i], i, num, exp, fails)
    IN  BulkDone(F[Len(df.rows)], "success", fails # {}, LacksColumn(df), df)

App2b_BulkUpload ==
    /\ variant = "app2b"
    /\ \E df \in Batches :
        \E fails \in FailSets(df),
           num \in OutcomesFor(LacksCarbon(df), App2NumberOutcomes),
           exp \in OutcomesFor(LacksCarbon(df), App2ExplainOutcomes) :
            /\ RoomFor(df)
            /\ submitted' = submitted + Len(df.rows)
            /\ app2b_bulk_upload(df, num, exp, fails)
    /\ UNCHANGED <<variant, aside, est_cache>>

\* "Delete" of the project list of the second application
App2b_Delete ==
    /\ variant = "app2b"
    /\ \E id \in Ids, dbok \in BOOLEAN :
        /\ projects' = app2b_db_delete_project(projects, id, dbok)
        /\ last' = Targeted(Report("delete", <<>>, 0, 0, <<>>, <<>>,
                                   IF dbok THEN "success" ELSE "error", FALSE), id, HasId(projects, id), ~dbok)
    /\ UNCHANGED <<variant, aside, next_id, est_cache, submitted>>

\* "Retire" and "Issue" of the project list of the second application
App2b_UpdateStatus ==
    /\ variant = "app2b"
    /\ \E row \in projects, status \in {Retired, Issued}, dbok \in BOOLEAN :
        /\ projects' = app2b_db_update_status(projects, row.id, status, dbok)
        /\ last' = Targeted(Report("status", <<>>, 0, 0, <<>>, <<>>,
                                   IF dbok THEN "success" ELSE "error", FALSE), row.id, HasId(projects, row.id), ~dbok)
    /\ UNCHANGED <<variant, aside, next_id, est_cache, submitted>>

NextApp2b ==
    \/ App2b_ManualEntry
    \/ App2b_BulkUpload
    \/ App2b_Delete
    \/ App2b_UpdateStatus

----------------------------------------------------------------------------
(* src/app3.py *)

\* a * c * 0.5 in fixed point, by parts to stay within 32-bit integers;
\* the part below one unit is dropped
HalfProduct(a, c) ==
    LET aq == a \div Scale
        ar == a % Scale
        cq == c \div Scale
        cr == c % Scale
    IN  (aq * cq * Scale + aq * cr + ar * cq + (ar * cr) \div Scale) \div 2

\* add_project of app3.py: credits = area_ha * carbon_tonnes * 0.5, not
\* rounded.  [ok, P, nid, id]; ok = FALSE when the product or the INSERT
\* raised (a str operand: TypeError)
app3_add_project(P, nid, name, type_, region, area_ha, carbon_tonnes, dbok) ==
    LET credits == IF IsNum(area_ha) /\ IsNum(carbon_tonnes)
                   THEN Num(HalfProduct(area_ha.n, carbon_tonnes.n))
                   ELSE NaNv
        new == Row(nid, SqliteBind(name), SqliteBind(type_), SqliteBind(region),
                   SqliteBind(area_ha), SqliteBind(carbon_tonnes),
                   SqliteBind(credits), Str(Issued), NoneV, NoneV, NoneV, NoneV)
    IN  IF dbok /\ Comparable(area_ha) /\ Comparable(carbon_tonnes)
        THEN [ok |-> TRUE, P |-> P \cup {new}, nid |-> nid + 1, id |-> nid]
        ELSE [ok |-> FALSE, P |-> P, nid |-> nid, id |-> 0]

\* delete_project of app3.py
app3_delete_project(P, project_id, dbok) ==
    IF dbok THEN DeleteWhere(P, project_id) ELSE P

\* update_status of app3.py
app3_update_status(P, project_id, new_status, dbok) ==
    IF dbok THEN UpdateWhere(P, project_id, [status |-> Str(new_status)]) ELSE P

\* "Add Project" of app3.py: the form values go to add_project as they are
App3_AddProject ==
    /\ variant = "app3"
    /\ submitted < MaxSubmitted
    /\ submitted' = submitted + 1
    /\ \E name \in ManualNames, type_ \in ManualTypes, region \in ManualRegions,
          area_ha \in ManualAreas, carbon_tonnes \in ManualCarbons,
          dbok \in BOOLEAN :
        LET raw == RawRow(Str(name), Str(type_), Str(region), Num(area_ha),
                          Num(carbon_tonnes), NoneV)
            r == app3_add_project(projects, next_id, Str(name), Str(type_),
                                  Str(region), Num(area_ha), Num(carbon_tonnes),
                                  dbok)
        IN  /\ projects' = r.P
            /\ next_id' = r.nid
            /\ last' = Observed(Report("manual",
                              <<RowReport(raw,
                                          IF r.ok THEN "persisted" ELSE "failed",
                                          r.id)>>,
                              0, 0, <<>>, <<>>,
                              IF r.ok THEN "success" ELSE "exception", ~r.ok), ~dbok, FALSE)
    /\ UNCHANGED <<variant, aside, est_cache>>

\* one iteration of the row loop of "Bulk Upload CSV" of app3.py; an
\* exception ends the loop and the handler
app3_bulk_row(acc, row, i, fails) ==
    LET r == app3_add_project(acc.P, acc.nid, row["Name"], row["Type"],
                              row["Region"], row["Area_ha"],
                              row["Carbon_tonnes"], i \notin fails)
    IN  IF acc.aborted THEN acc
        ELSE IF TitleCols \ DOMAIN row # {} \/ ~r.ok
        THEN [BulkSkip(acc, row, "failed", FALSE, FALSE) EXCEPT !.aborted = TRUE]
        ELSE [acc EXCEPT !.P = r.P, !.nid = r.nid, !.added = @ + 1,
                         !.rows = Append(@, RowReport(row, "persisted", r.id))]

\* "Bulk Upload CSV" of app3.py on one uploaded file
app3_bulk_upload(df, fails) ==
    LET F[i \in 0..Len(df.rows)] ==
            IF i = 0 THEN BulkStart(projects, next_id)
            ELSE app3_bulk_row(F[i - 1], df.rows[i], i, fails)
        end == F[Len(df.rows)]
    IN  /\ projects' = end.P
        /\ next_id' = end.nid
        /\ last' = FromFile(df, Observed(Report("import", end.rows, end.added, end.skipped,
                          end.errors,
                          end.ests, IF end.aborted THEN "exception" ELSE "success",
                          end.aborted), fails # {}, LacksColumn(df)))

App3_BulkUpload ==
    /\ variant = "app3"
    /\ \E df \in Batches : \E fails \in FailSets(df) :
            /\ RoomFor(df)
            /\ submitted' = submitted + Len(df.rows)
            /\ app3_bulk_upload(df, fails)
    /\ UNCHANGED <<variant, aside, est_cache>>

\* "Delete" of "Manage Projects" of app3.py
App3_Delete ==
    /\ variant = "app3"
    /\ \E id \in Ids, dbok \in BOOLEAN :
        /\ projects' = app3_delete_project(projects, id, dbok)
        /\ last' = Targeted(Report("delete", <<>>, 0, 0, <<>>, <<>>,
                                   IF dbok THEN "success" ELSE "exception", ~dbok), id, HasId(projects, id), ~dbok)
    /\ UNCHANGED <<variant, aside, next_id, est_cache, submitted>>

\* "Issue" and "Retire" of "Manage Projects" of app3.py
App3_UpdateStatus ==
    /\ variant = "app3"
    /\ \E row \in projects, new_status \in {Issued, Retired}, dbok \in BOOLEAN :
        /\ projects' = app3_update_status(projects, row.id, new_status, dbok)
        /\ last' = Targeted(Report("status", <<>>, 0, 0, <<>>, <<>>,
                                   IF dbok THEN "success" ELSE "exception", ~dbok), row.id, HasId(projects, row.id), ~dbok)
    /\ UNCHANGED <<variant, aside, next_id, est_cache, submitted>>

NextApp3 ==
    \/ App3_AddProject
    \/ App3_BulkUpload
    \/ App3_Delete
    \/ App3_UpdateStatus

----------------------------------------------------------------------------
(* src/app4.py *)

\* calculate_credits of app4.py: round(area*0.5 + carbon*0.2, 2)
app4_calculate_credits(area, carbon) ==
    IF IsNum(area) /\ IsNum(carbon)
    THEN Num(Round2(5 * area.n + 2 * carbon.n))
    ELSE NaNv

\* add_project of app4.py: [ok, P, nid, id]; ok = FALSE when the INSERT raised
app4_add_project(P, nid, name, type_, region, area, carbon, dbok) ==
    LET credits == app4_calculate_credits(area, carbon)
        new == Row(nid, SqliteBind(name), SqliteBind(type_), SqliteBind(region),
                   SqliteBind(area), SqliteBind(carbon), SqliteBind(credits),
                   Str(Issued), NoneV, NoneV, NoneV, NoneV)
    IN  IF dbok
        THEN [ok |-> TRUE, P |-> P \cup {new}, nid |-> nid + 1, id |-> nid]
        ELSE [ok |-> FALSE, P |-> P, nid |-> nid, id |-> 0]

\* delete_project of app4.py: the DELETE is committed when it hit one row
app4_delete_project(P, proj_id, dbok) ==
    IF dbok /\ Cardinality({r \in P : r.id = proj_id}) = 1
    THEN DeleteWhere(P, proj_id)
    ELSE P

\* update_status of app4.py
app4_update_status(P, proj_id, status, dbok) ==
    IF dbok THEN UpdateWhere(P, proj_id, [status |-> Str(status)]) ELSE P

\* "Add Project" of the manual form of app4.py
App4_ManualEntry ==
    /\ variant = "app4"
    /\ submitted < MaxSubmitted
    /\ submitted' = submitted + 1
    /\ \E name \in ManualNames, type_ \in ManualTypes, region \in ManualRegions,
          area \in ManualAreas, carbon \in ManualCarbons, dbok \in BOOLEAN :
        LET raw == RawRow(Str(name), Str(type_), Str(region), Num(area),
                          Num(carbon), NoneV)
            r == app4_add_project(projects, next_id, Str(name), Str(type_),
                                  Str(region), Num(area), Num(carbon), dbok)
        IN  IF name # "" /\ type_ # "" /\ region # ""
            THEN /\ projects' = r.P
                 /\ next_id' = r.nid
                 /\ last' = Observed(Report("manual",
                                   <<RowReport(raw,
                                               IF r.ok THEN "persisted" ELSE "failed",
                                               r.id)>>,
                                   0, 0, <<>>, <<>>,
                                   IF r.ok THEN "success" ELSE "exception", ~r.ok), ~dbok, FALSE)
            ELSE /\ last' = Observed(Report("manual",
                                   <<RowReport(raw, "rejected", 0)>>,
                                   0, 0, <<>>, <<>>, "error", FALSE), ~dbok, FALSE)
                 /\ UNCHANGED <<projects, next_id>>
    /\ UNCHANGED <<variant, aside, est_cache>>

\* one iteration of the row loop of "Add All Projects" of app4.py
app4_bulk_row(acc, row, i, fails) ==
    LET area == PyFloat(Get(row, "area_ha", Num(0)))
        carbon == PyFloat(Get(row, "carbon_tonnes", Num(0)))
        r == app4_add_project(acc.P, acc.nid, row["name"], row["type"],
                              row["region"], area.v, carbon.v, i \notin fails)
    IN  IF {"name", "type", "region"} \ DOMAIN row # {}
        THEN BulkSkip(acc, row, "failed", FALSE, TRUE)
        ELSE IF ~area.ok \/ ~carbon.ok \/ ~r.ok
        THEN BulkSkip(acc, row, "failed", FALSE, TRUE)
        ELSE [acc EXCEPT !.P = r.P, !.nid = r.nid, !.added = @ + 1,
                         !.rows = Append(@, RowReport(row, "persisted", r.id))]

\* "Add All Projects" of app4.py on one uploaded file
app4_bulk_upload(df, fails) ==
    LET F[i \in 0..Len(df.rows)] ==
            IF i = 0 THEN BulkStart(projects, next_id)
            ELSE app4_bulk_row(F[i - 1], df.rows[i], i, fails)
        end == F[Len(df.rows)]
    IN  /\ projects' = end.P
        /\ next_id' = end.nid
        /\ last' = FromFile(df, Observed(Report("import", end.rows, end.added, end.skipped,
                          end.errors,
                          end.ests, "success", FALSE), fails # {}, LacksColumn(df)))

App4_BulkUpload ==
    /\ variant = "app4"
    /\ \E df \in Batches : \E fails \in FailSets(df) :
            /\ RoomFor(df)
            /\ submitted' = submitted + Len(df.rows)
            /\ app4_bulk_upload(df, fails)
    /\ UNCHANGED <<variant, aside, est_cache>>

\* "Delete" of the project list of app4.py
App4_Delete ==
    /\ variant = "app4"
    /\ \E id \in Ids, dbok \in BOOLEAN :
        /\ projects' = app4_delete_project(projects, id, dbok)
        /\ last' = Targeted(Report("delete", <<>>, 0, 0, <<>>, <<>>,
                                   IF dbok THEN "success" ELSE "exception", ~dbok), id, HasId(projects, id), ~dbok)
    /\ UNCHANGED <<variant, aside, next_id, est_cache, submitted>>

\* "Retire" and "Issue" of the project list of app4.py
App4_UpdateStatus ==
    /\ variant = "app4"
    /\ \E row \in projects, status \in {Retired, Issued}, dbok \in BOOLEAN :
        /\ projects' = app4_update_status(projects, row.id, status, dbok)
        /\ last' = Targeted(Report("status", <<>>, 0, 0, <<>>, <<>>,
                                   IF dbok THEN "success" ELSE "exception", ~dbok), row.id, HasId(projects, row.id), ~dbok)
    /\ UNCHANGED <<variant, aside, next_id, est_cache, submitted>>

NextApp4 ==
    \/ App4_ManualEntry
    \/ App4_BulkUpload
    \/ App4_Delete
    \/ App4_UpdateStatus

----------------------------------------------------------------------------
(* Specifications *)

Variants == {"app", "app1", "app2", "app2b", "app3", "app4"}

\* the columns of the table after the start-up code
ProjectColumns ==
    {"id", "name", "type", "region", "area_ha", "carbon_tonnes", "credits",
     "status", "created_at"}
\* no import call is in progress
NoRun == [phase |-> "idle"]
\* the shared connection conn and cursor c with no transaction open: tx is
\* empty, or holds the rows and the AUTOINCREMENT counter as the open
\* transaction has them; rowcount is c.rowcount
NoTx == [tx |-> <<>>, rowcount |-> -1]
\* no caller is inside add_project or delete_project
NoCallers == <<>>

Init ==
    /\ variant \in Variants
    /\ projects = {}
    /\ next_id = 1
    /\ submitted = 0
    /\ est_cache = EmptyCache
    /\ last = NoReport
    /\ table_cols = ProjectColumns
    /\ inits = 1
    /\ run = NoRun
    /\ conn_tx = NoTx
    /\ pc = NoCallers

Next == NextApp \/ NextApp1 \/ NextApp2 \/ NextApp2b \/ NextApp3 \/ NextApp4

Spec == Init /\ [][Next]_vars

InitApp == Init /\ variant = "app"
SpecApp == InitApp /\ [][NextApp]_vars

InitApp1 == Init /\ variant = "app1"
SpecApp1 == InitApp1 /\ [][NextApp1]_vars

InitApp2 == Init /\ variant = "app2"
SpecApp2 == InitApp2 /\ [][NextApp2]_vars

InitApp2b == Init /\ variant = "app2b"
SpecApp2b == InitApp2b /\ [][NextApp2b]_vars

InitApp3 == Init /\ variant = "app3"
SpecApp3 == InitApp3 /\ [][NextApp3]_vars

InitApp4 == Init /\ variant = "app4"
SpecApp4 == InitApp4 /\ [][NextApp4]_vars

----------------------------------------------------------------------------
(* Start-up: the schema of table projects.  A table is its column names and *)
(* its rows; a row maps every column to a value (NoneV is NULL).           *)

\* how many times the start-up code runs in one behaviour
MaxInits == 2

\* the columns every older table has, those an older table may lack, and the
\* columns of the oldest schema that ensure_projects_schema looks for
KeyColumns == {"id", "name", "type", "region"}
LaterColumns == {"area_ha", "carbon_tonnes", "credits", "status", "created_at"}
LegacyColumns == {"area", "carbon"}

\* the columns of a table left by an older version of the application
PriorColumnSets == {KeyColumns \cup S : S \in SUBSET (LaterColumns \cup LegacyColumns)}

\* the cell of column col in the old row with the given id; the second row
\* has no legacy area
OldCell(id, col) ==
    CASE col = "id" -> id
      [] col = "name" -> Str("A")
      [] col = "type" -> Str("Mangrove")
      [] col = "region" -> Str("India")
      [] col = "area_ha" -> Num(100 * Scale)
      [] col = "carbon_tonnes" -> Num(400 * Scale)
      [] col = "credits" -> Num(130 * Scale)
      [] col = "status" -> Str(Retired)
      [] col = "created_at" -> Str("2024-01-01")
      [] col = "area" -> IF id = 1 THEN Num(25 * Scale) ELSE NoneV
      [] col = "carbon" -> Num(75 * Scale)

\* the rows an older table with columns cols may hold
PriorRows(cols) == SUBSET {[c \in cols |-> OldCell(id, c)] : id \in 1..2}

\* ALTER TABLE projects ADD COLUMN col: the rows get NULL in it
AddColumn(T, col) ==
    [cols |-> T.cols \cup {col},
     rows |-> {[c \in T.cols \cup {col} |-> IF c = col THEN NoneV ELSE r[c]] :
                    r \in T.rows}]

\* UPDATE projects SET col = from WHERE col IS NULL
CopyWhereNull(T, col, from) ==
    [T EXCEPT !.rows = {[r EXCEPT ![col] = IF @ = NoneV THEN r[from] ELSE @] :
                            r \in T.rows}]

\* UPDATE projects SET col = COALESCE(col, default)
Coalesce(T, col, default) ==
    [T EXCEPT !.rows = {[r EXCEPT ![col] = IF @ = NoneV THEN default ELSE @] :
                            r \in T.rows}]

\* one `if col not in cols:` block of ensure_projects_schema with a legacy
\* column to copy from; cols is the result of PRAGMA table_info at the start
EnsureMeasure(T, cols, col, legacy) ==
    IF col \in cols THEN T
    ELSE IF legacy \in cols
    THEN Coalesce(CopyWhereNull(AddColumn(T, col), col, legacy), col, Num(0))
    ELSE Coalesce(AddColumn(T, col), col, Num(0))

\* one `if col not in cols:` block with a default
EnsureDefault(T, cols, col, default) ==
    IF col \in cols THEN T ELSE Coalesce(AddColumn(T, col), col, default)

\* ensure_projects_schema of app1.py
app1_ensure_projects_schema(T) ==
    LET a == EnsureMeasure(T, T.cols, "area_ha", "area")
        b == EnsureMeasure(a, T.cols, "carbon_tonnes", "carbon")
        c == EnsureDefault(b, T.cols, "credits", Num(0))
        d == EnsureDefault(c, T.cols, "status", Str(Issued))
    IN  IF "created_at" \in T.cols THEN d ELSE AddColumn(d, "created_at")

\* ensure_projects_schema of app4.py, the same statements
app4_ensure_projects_schema(T) ==
    LET a == EnsureMeasure(T, T.cols, "area_ha", "area")
        b == EnsureMeasure(a, T.cols, "carbon_tonnes", "carbon")
        c == EnsureDefault(b, T.cols, "credits", Num(0))
        d == EnsureDefault(c, T.cols, "status", Str(Issued))
    IN  IF "created_at" \in T.cols THEN d ELSE AddColumn(d, "created_at")

\* ensure_projects_table of app2.py: CREATE TABLE IF NOT EXISTS on a table
\* that exists does nothing
app2_ensure_projects_table(T) == T

\* the start-up code has run once more and left table T
Started(T) ==
    /\ inits < MaxInits
    /\ inits' = inits + 1
    /\ table_cols' = T.cols
    /\ projects' = T.rows
    /\ UNCHANGED <<variant, next_id, est_cache, submitted, last, run, conn_tx, pc>>

App1_EnsureSchema ==
    /\ variant = "app1"
    /\ Started(app1_ensure_projects_schema([cols |-> table_cols, rows |-> projects]))

App4_EnsureSchema ==
    /\ variant = "app4"
    /\ Started(app4_ensure_projects_schema([cols |-> table_cols, rows |-> projects]))

App2_EnsureTable ==
    /\ variant = "app2"
    /\ Started(app2_ensure_projects_table([cols |-> table_cols, rows |-> projects]))

NextSchema ==
    \/ App1_EnsureSchema
    \/ App4_EnsureSchema
    \/ App2_EnsureTable

\* the application starts on a table left by an older version
InitSchema ==
    /\ variant \in {"app1", "app2", "app4"}
    /\ table_cols \in PriorColumnSets
    /\ projects \in PriorRows(table_cols)
    /\ inits = 0
    /\ next_id = 3
    /\ submitted = 0
    /\ est_cache = EmptyCache
    /\ last = NoReport
    /\ run = NoRun
    /\ conn_tx = NoTx
    /\ pc = NoCallers

SpecSchema == InitSchema /\ [][NextSchema]_vars

----------------------------------------------------------------------------
(* "Add All Projects" of app2.py step by step: one step per external call  *)
(* and per row iteration.  run holds the position of the handler.          *)

\* OLLAMA_TIMEOUT = 20 seconds, counted in ticks of ten seconds
OLLAMA_TIMEOUT == 2

\* the handler at row i of the file df: phase "row" before the iteration,
\* "number" and "explain" inside the two external calls, "done" after the
\* summary; clock, the ticks the running call has taken; num, what the
\* number call returned; seen, the rows whose iteration ended, in order
Loop(phase, df, i, acc, clock, num, seen, fault) ==
    [phase |-> phase, df |-> df, i |-> i, acc |-> acc, clock |-> clock,
     num |-> num, seen |-> seen, fault |-> fault]

\* the row reaches the branch `if pd.isna(carbon)` of the loop body
NeedsEstimate(row) ==
    LET area == Get(row, "area_ha", NoneV)
    IN  /\ ~IsNa(area)
        /\ PyFloat(area).ok
        /\ ~Le0(PyFloat(area).v)
        /\ IsNa(Get(row, "carbon_tonnes", NoneV))

\* a loop that lets a skipped row come up again
iterrows_retry(r, acc, failed) ==
    IF acc.skipped > r.acc.skipped
    THEN [r EXCEPT !.phase = "row", !.clock = 0]
    ELSE [r EXCEPT !.phase = "row", !.i = @ + 1, !.acc = acc, !.clock = 0,
                   !.seen = Append(@, r.i), !.fault = @ \/ failed]

\* `for _, row in df.iterrows()`: the iteration on row r.i ended with
\* accumulator acc, the loop goes to the next row
iterrows_next(r, acc, failed) ==
    [r EXCEPT !.phase = "row", !.i = @ + 1, !.acc = acc, !.clock = 0,
              !.seen = Append(@, r.i), !.fault = @ \/ failed]

\* the body of the loop on row r.i, the external calls having ended in num
\* and exp and the two statements of the insertion as db says
LoopBody(r, num, exp, db) ==
    /\ run' = iterrows_next(
                r,
                app2_bulk_row(r.acc, r.df.rows[r.i], r.i, num, exp, {r.i}, db),
                db # "ok")
    /\ projects' = run'.acc.P
    /\ next_id' = run'.acc.nid
    /\ UNCHANGED <<variant, est_cache, submitted, last, table_cols, inits, conn_tx, pc>>

\* the button "Add All Projects" is pressed with the file df uploaded
Loop_Submit ==
    /\ run.phase = "idle"
    /\ \E df \in Batches :
        run' = Loop("row", df, 1, BulkStart(projects, next_id), 0,
                    CHOOSE o \in App2NumberOutcomes : TRUE, <<>>, FALSE)
    /\ UNCHANGED <<variant, projects, next_id, est_cache, submitted, last,
                   table_cols, inits, conn_tx, pc>>

\* an iteration on a row that needs no estimate
Loop_Row ==
    /\ run.phase = "row"
    /\ run.i <= Len(run.df.rows)
    /\ ~NeedsEstimate(run.df.rows[run.i])
    /\ \E db \in DbOutcomes :
        LoopBody(run, CHOOSE o \in App2NumberOutcomes : TRUE,
                 CHOOSE o \in App2ExplainOutcomes : TRUE, db)

\* an iteration on a row without carbon starts run_ollama_number
Loop_Estimate ==
    /\ run.phase = "row"
    /\ run.i <= Len(run.df.rows)
    /\ NeedsEstimate(run.df.rows[run.i])
    /\ run' = [run EXCEPT !.phase = "number", !.clock = 0]
    /\ UNCHANGED <<variant, projects, next_id, est_cache, submitted, last,
                   table_cols, inits, conn_tx, pc>>

\* subprocess.run(cmd, timeout=timeout): the backend is still running
Loop_Wait ==
    /\ run.phase \in {"number", "explain"}
    /\ run.clock < OLLAMA_TIMEOUT
    /\ run' = [run EXCEPT !.clock = @ + 1]
    /\ UNCHANGED <<variant, projects, next_id, est_cache, submitted, last,
                   table_cols, inits, conn_tx, pc>>

\* how a subprocess.run that has taken clock ticks can end: TimeoutExpired
\* at the timeout, otherwise any other outcome
EndsAt(clock, outcomes) ==
    IF clock = OLLAMA_TIMEOUT THEN outcomes \cap {TimedOut} ELSE outcomes \ {TimedOut}

\* run_ollama_number returns; run_ollama_text for the explanation starts
Loop_NumberReturns ==
    /\ run.phase = "number"
    /\ \E o \in EndsAt(run.clock, App2NumberOutcomes) :
        run' = [run EXCEPT !.phase = "explain", !.clock = 0, !.num = o]
    /\ UNCHANGED <<variant, projects, next_id, est_cache, submitted, last,
                   table_cols, inits, conn_tx, pc>>

\* run_ollama_text returns and the iteration goes on to the insert
Loop_ExplainReturns ==
    /\ run.phase = "explain"
    /\ \E o \in EndsAt(run.clock, App2ExplainOutcomes), db \in DbOutcomes :
        LoopBody(run, run.num, o, db)

\* after the last row: st.success("Bulk import done. Added: ..., Skipped: ...")
Loop_Summary ==
    /\ run.phase = "row"
    /\ run.i > Len(run.df.rows)
    /\ run' = [run EXCEPT !.phase = "done"]
    /\ BulkDone(run.acc, "success", run.fault, LacksColumn(run.df), run.df)
    /\ UNCHANGED <<variant, est_cache, submitted, table_cols, inits, conn_tx, pc>>

\* the steps the handler takes by itself once the button is pressed
LoopStep ==
    \/ Loop_Row
    \/ Loop_Estimate
    \/ Loop_Wait
    \/ Loop_NumberReturns
    \/ Loop_ExplainReturns
    \/ Loop_Summary

NextLoop == Loop_Submit \/ LoopStep

InitLoop == Init /\ variant = "app2"

\* the script runs the handler to its end: a step that can be taken is taken
SpecLoop == InitLoop /\ [][NextLoop]_vars /\ WF_vars(LoopStep)

----------------------------------------------------------------------------
(* add_project and delete_project of app1.py statement by statement, for   *)
(* two callers on the one connection conn and cursor c of the module.      *)

\* the calls one caller makes in one behaviour
MaxCalls == 2

\* the threads that run handlers on the module's connection
Callers == 1..2

\* a caller between two calls, after `calls` calls; raised: the last call
\* ended with an exception
Idle(calls, raised) == [at |-> "idle", id |-> 0, calls |-> calls, raised |-> raised]

\* a caller inside a call, before the statement named by at; id is the id it
\* inserted or the id it is to delete
Inside(caller, at, id) == [caller EXCEPT !.at = at, !.id = id]

\* what a statement run on the connection reads and writes: the open
\* transaction, or the committed table when a transaction has to be opened
View(cn, P, nid) == IF cn.tx # <<>> THEN cn.tx[1] ELSE [P |-> P, nid |-> nid]

\* the connection after a statement left rows P, counter nid and rowcount n
\* in the open transaction
Executed(P, nid, n) == [tx |-> <<[P |-> P, nid |-> nid]>>, rowcount |-> n]

\* conn.commit(): the open transaction, if any, becomes the stored table
sqlite_commit ==
    /\ projects' = View(conn_tx, projects, next_id).P
    /\ next_id' = View(conn_tx, projects, next_id).nid
    /\ conn_tx' = [conn_tx EXCEPT !.tx = <<>>]

\* conn.rollback(): the open transaction, if any, is dropped
sqlite_rollback ==
    /\ conn_tx' = [conn_tx EXCEPT !.tx = <<>>]
    /\ UNCHANGED <<projects, next_id>>

\* a handler calls add_project
Conn_CallAdd ==
    /\ \E t \in Callers :
        /\ pc[t].at = "idle"
        /\ pc[t].calls < MaxCalls
        /\ pc' = [pc EXCEPT ![t] = [at |-> "insert", id |-> 0,
                                    calls |-> @.calls + 1, raised |-> FALSE]]
    /\ UNCHANGED <<variant, projects, next_id, est_cache, submitted, last,
                   table_cols, inits, run, conn_tx>>

\* add_project: c.execute(INSERT ...), which opens a transaction when none
\* is open
Conn_Insert ==
    /\ \E t \in Callers :
        /\ pc[t].at = "insert"
        /\ LET v == View(conn_tx, projects, next_id)
               r == app1_add_project(v.P, v.nid, Str("A"), Str("Mangrove"),
                                     Str("India"), Num(100 * Scale),
                                     Num(400 * Scale), TRUE)
           IN  /\ conn_tx' = Executed(r.P, r.nid, 1)
               /\ pc' = [pc EXCEPT ![t] = Inside(@, "commit", r.id)]
    /\ UNCHANGED <<variant, projects, next_id, est_cache, submitted, last,
                   table_cols, inits, run>>

\* add_project: conn.commit(), and the call returns
Conn_AddCommit ==
    /\ \E t \in Callers :
        /\ pc[t].at = "commit"
        /\ sqlite_commit
        /\ pc' = [pc EXCEPT ![t] = Idle(@.calls, FALSE)]
    /\ UNCHANGED <<variant, est_cache, submitted, last, table_cols, inits, run>>

\* a handler calls delete_project(proj_id)
Conn_CallDelete ==
    /\ \E t \in Callers, proj_id \in Ids :
        /\ pc[t].at = "idle"
        /\ pc[t].calls < MaxCalls
        /\ pc' = [pc EXCEPT ![t] = [at |-> "begin", id |-> proj_id,
                                    calls |-> @.calls + 1, raised |-> FALSE]]
    /\ UNCHANGED <<variant, projects, next_id, est_cache, submitted, last,
                   table_cols, inits, run, conn_tx>>

\* delete_project: conn.execute("BEGIN"); inside an open transaction sqlite
\* refuses it, and the except branch rolls back and raises
Conn_Begin ==
    /\ \E t \in Callers :
        /\ pc[t].at = "begin"
        /\ IF conn_tx.tx # <<>>
           THEN /\ sqlite_rollback
                /\ pc' = [pc EXCEPT ![t] = Idle(@.calls, TRUE)]
           ELSE /\ conn_tx' = Executed(projects, next_id, conn_tx.rowcount)
                /\ pc' = [pc EXCEPT ![t] = Inside(@, "delete", @.id)]
                /\ UNCHANGED <<projects, next_id>>
    /\ UNCHANGED <<variant, est_cache, submitted, last, table_cols, inits, run>>

\* delete_project: c.execute(DELETE ... WHERE id = ?)
Conn_Delete ==
    /\ \E t \in Callers :
        /\ pc[t].at = "delete"
        /\ LET v == View(conn_tx, projects, next_id)
           IN  conn_tx' = Executed(DeleteWhere(v.P, pc[t].id), v.nid,
                                   Cardinality({r \in v.P : r.id = pc[t].id}))
        /\ pc' = [pc EXCEPT ![t] = Inside(@, "check", @.id)]
    /\ UNCHANGED <<variant, projects, next_id, est_cache, submitted, last,
                   table_cols, inits, run>>

\* delete_project: `if c.rowcount == 1: conn.commit() else: conn.rollback()`
Conn_Check ==
    /\ \E t \in Callers :
        /\ pc[t].at = "check"
        /\ IF conn_tx.rowcount = 1 THEN sqlite_commit ELSE sqlite_rollback
        /\ pc' = [pc EXCEPT ![t] = Idle(@.calls, FALSE)]
    /\ UNCHANGED <<variant, est_cache, submitted, last, table_cols, inits, run>>

NextConn ==
    \/ Conn_CallAdd
    \/ Conn_Insert
    \/ Conn_AddCommit
    \/ Conn_CallDelete
    \/ Conn_Begin
    \/ Conn_Delete
    \/ Conn_Check

InitConn ==
    /\ variant = "app1"
    /\ projects = {}
    /\ next_id = 1
    /\ submitted = 0
    /\ est_cache = EmptyCache
    /\ last = NoReport
    /\ table_cols = ProjectColumns
    /\ inits = 1
    /\ run = NoRun
    /\ conn_tx = NoTx
    /\ pc = [t \in Callers |-> Idle(0, FALSE)]

SpecConn == InitConn /\ [][NextConn]_vars

----------------------------------------------------------------------------
(* Properties *)

\* credits c (in units of 1e-4) is 0.5 * area + 0.2 * carbon rounded to four
\* decimals: c is a nearest unit to (5 * area + 2 * carbon) / 10
RoundedFormula(c, area, carbon) ==
    /\ 5 * area + 2 * carbon - 5 <= 10 * c
    /\ 10 * c <= 5 * area + 2 * carbon + 5

\* C1: every record created by a manual entry or a CSV import with
\* area_ha > 0 and carbon_tonnes >= 0 stores
\* credits = round(0.5 * area_ha + 0.2 * carbon_tonnes, 4).
C1_CreditsAsFormula ==
    \A r \in projects :
        (Gt0(r.area_ha) /\ IsNum(r.carbon_tonnes) /\ r.carbon_tonnes.n >= 0)
            => /\ IsNum(r.credits)
               /\ RoundedFormula(r.credits.n, r.area_ha.n, r.carbon_tonnes.n)

\* C2: in every reachable state of app.py, after any sequence of create,
\* edit, status update, verification update and delete, the credits of every
\* stored record are the formula of its current area_ha and carbon_tonnes.
C2_CreditsFollowFields ==
    \A r \in projects :
        /\ IsNum(r.area_ha) /\ IsNum(r.carbon_tonnes) /\ IsNum(r.credits)
        /\ RoundedFormula(r.credits.n, r.area_ha.n, r.carbon_tonnes.n)

\* a record entered as 100 ha was edited to 50 ha and 200 t and now holds
\* 65 credits
C2_EditedRecord ==
    /\ last.op = "edit"
    /\ \E r \in projects :
        /\ r.type = Str("Mangrove")
        /\ r.area_ha = Num(50 * Scale)
        /\ r.carbon_tonnes = Num(200 * Scale)
        /\ r.credits = Num(65 * Scale)

\* C3: in every reachable state every stored record has area_ha > 0,
\* whatever manual entries, CSV imports and field edits produced it.
C3_AreaPositive == \A r \in projects : Gt0(r.area_ha)

\* C4: in every reachable state the status of every stored record is one of
\* Draft, Issued and Retired, whatever manual entries, CSV imports (with a
\* status column) and status updates produced it.
C4_StatusWithinOptions ==
    \A r \in projects : IsStr(r.status) /\ r.status.s \in StatusOptions

\* C5: validation accepts a raw row exactly when its name, type and region
\* are non-empty after trimming and its area_ha parses to a number > 0, and
\* a row of a file with an empty name, type or region is skipped with the
\* reason "missing required text fields".
C5_ValidationAccepts ==
    (last.op \in {"manual", "import"} /\ ~last.lacking) =>
        \A i \in DOMAIN last.rows :
            /\ (last.rows[i].out # "rejected") <=> last.rows[i].valid
            /\ (last.op = "import" /\ last.rows[i].textless) =>
                    \E k \in DOMAIN last.errors :
                        last.errors[k] = <<i - 1, "missing required text fields">>

\* the rows of the last file that fail the Validator contract
InvalidRows == {i \in DOMAIN last.rows : ~last.rows[i].valid}

\* C6: an import of N rows of which K fail validation reports added = N - K,
\* skipped = K and K distinct error entries, and every valid row is
\* persisted wherever the invalid rows sit in the file.
C6_ImportCounts ==
    (last.op = "import" /\ ~last.lacking /\ ~last.fault) =>
        /\ last.added = Len(last.rows) - Cardinality(InvalidRows)
        /\ last.skipped = Cardinality(InvalidRows)
        /\ Len(last.errors) = Cardinality(InvalidRows)
        /\ \A j, k \in DOMAIN last.errors :
                last.errors[j] = last.errors[k] => j = k
        /\ \A i \in DOMAIN last.rows :
                last.rows[i].valid => last.rows[i].out = "persisted"

\* C7: an import of a file that lacks a required column (name, type, region,
\* area_ha) leaves the store exactly as it was.
C7_MissingColumnAborts ==
    [][(last'.op = "import" /\ last'.lacking) => projects' = projects]_vars

\* C8: whenever the external estimation call fails, times out or returns
\* text without a number, the estimate is area_ha * 4.0 (400 for 100 ha).
C8_FallbackOnFailure ==
    \A i \in DOMAIN last.ests :
        (last.ests[i].external /\ last.ests[i].failed)
            => last.ests[i].val = 4 * last.ests[i].key[1].n

\* C9: the estimator never raises: whatever the external call did (the
\* store being available), the handler gets a number and a non-empty
\* explanation and the otherwise valid record is still ingested.
C9_EstimatorTotal ==
    ~last.fault =>
        /\ last.ests # <<>> => last.shown # "exception"
        /\ \A i \in DOMAIN last.ests :
            /\ last.ests[i].val \in Int
            /\ last.ests[i].expl.t = "txt" /\ last.ests[i].expl.cs # <<>>
            /\ last.rows[last.ests[i].row].valid
                    => last.rows[last.ests[i].row].out = "persisted"

\* C10: within one session two estimations with the same (area_ha, type,
\* region) make one external call: the pair of an external call is kept in
\* the cache and the later estimation returns it without a call, on the
\* manual form and in a bulk import.
C10_OneCallPerKey ==
    /\ \A i \in DOMAIN last.ests :
            last.ests[i].external =>
                \E k \in DOMAIN est_cache :
                    /\ est_cache[k].origin = last.ests[i].key
                    /\ est_cache[k].est_val = Num(last.ests[i].val)
                    /\ est_cache[k].expl = last.ests[i].expl
    /\ \A i, j \in DOMAIN last.ests :
            (i < j /\ last.ests[i].key = last.ests[j].key) =>
                /\ ~last.ests[j].external
                /\ last.ests[j].val = last.ests[i].val
                /\ last.ests[j].expl = last.ests[i].expl

\* C11: the estimator cache is keyed by (area_ha, type, region): an estimate
\* served from the cache is a pair that was computed for the same area_ha,
\* the same type and the same region as the request it is served to.
C11_CacheHitSameRequest ==
    \A i \in DOMAIN last.ests :
        ~last.ests[i].external => last.ests[i].origin = last.ests[i].key

\* C12: the estimator runs only for rows that omit carbon_tonnes or give 0:
\* a row that supplies carbon_tonnes > 0 causes no external call and, when
\* it is persisted, is stored with exactly the supplied value.
C12_NoCallWhenSupplied ==
    \A i \in DOMAIN last.rows :
        last.rows[i].supplied > 0 =>
            /\ i \notin last.calls
            /\ last.rows[i].out = "persisted" =>
                    \E r \in projects :
                        /\ r.id = last.rows[i].id
                        /\ r.carbon_tonnes = Num(last.rows[i].supplied)

C14_DeleteExactlyOne ==
    [][(last'.op = "delete" /\ ~last'.fault) =>
        /\ projects' = {r \in projects : r.id # last'.target}
        /\ ~last'.found => projects' = projects
        /\ last'.shown = "success"
        /\ ~last'.aborted]_vars

\* a delete of an id that was assigned before and is no longer stored has
\* completed, with another record in the store
C14_DeletedAgain ==
    /\ last.op = "delete"
    /\ ~last.fault
    /\ ~last.found
    /\ last.target < next_id
    /\ projects # {}

\* C15: record ids are unique among the stored records, immutable and never
\* reused: an id given by a create differs from every id given before, the
\* ids of deleted records included.  Every stored id lies below the id
\* sequence, the sequence never goes back, an id that enters the store is at
\* or above the sequence, and only a create brings an id into the store.
C15_IdsNeverReused ==
    [][/\ \A r, q \in projects' : r.id = q.id => r = q
       /\ \A r \in projects' : r.id >= 1 /\ r.id < next_id'
       /\ next_id' >= next_id
       /\ \A r \in projects' : ~HasId(projects, r.id) => r.id >= next_id
       /\ last'.op \notin {"manual", "import"} =>
            {r.id : r \in projects'} \subseteq {r.id : r \in projects}]_vars

\* a create has stored a record after the record of an earlier id was deleted
C15_CreatedAfterDelete ==
    /\ last.op \in {"manual", "import"}
    /\ \E i \in DOMAIN last.rows :
        /\ last.rows[i].out = "persisted"
        /\ HasId(projects, last.rows[i].id)
        /\ \E id \in 1..(last.rows[i].id - 1) : ~HasId(projects, id)

\* C16: an import does not deduplicate: every valid row of the file becomes a
\* record of its own with a new id, whatever is already stored, so the same
\* file imported twice adds its valid rows twice; the records stored before
\* the import are left as they were.  A row that the storage refused is not
\* counted here.
C16_ImportNotDeduplicated ==
    [][(last'.op = "import" /\ ~last'.fault /\ ~last'.lacking) =>
        /\ projects \subseteq projects'
        /\ \A i \in DOMAIN last'.rows :
            (last'.rows[i].valid /\ last'.rows[i].out # "failed") =>
                /\ last'.rows[i].id >= next_id
                /\ \E r \in projects' \ projects : r.id = last'.rows[i].id
        /\ \A i, j \in DOMAIN last'.rows :
            (/\ last'.rows[i].valid /\ last'.rows[i].out # "failed"
             /\ last'.rows[j].valid /\ last'.rows[j].out # "failed"
             /\ i # j) =>
                last'.rows[i].id # last'.rows[j].id]_vars

\* the second of two imports of one file has stored a valid row whose name,
\* type, region, area, carbon and credits are those of a record stored before
C16_SameRowTwice ==
    /\ last.op = "import"
    /\ last.repeat
    /\ ~last.fault
    /\ \E i \in DOMAIN last.rows : \E r, q \in projects :
        /\ last.rows[i].valid
        /\ r.id = last.rows[i].id
        /\ q.id < r.id
        /\ q.name = r.name /\ q.type = r.type /\ q.region = r.region
        /\ q.area_ha = r.area_ha /\ q.carbon_tonnes = r.carbon_tonnes
        /\ q.credits = r.credits

\* C17: a create whose storage write failed is surfaced for its row: the
\* manual form does not report success or an id for it, and an import counts
\* the row as skipped and not as added.
C17_CreateFailureSurfaced ==
    LET failed == {i \in DOMAIN last.rows : last.rows[i].out = "failed"}
        stored == {i \in DOMAIN last.rows : last.rows[i].out = "persisted"}
    IN  failed # {} =>
            /\ last.op = "manual" => last.shown # "success"
            /\ last.op = "import" =>
                    /\ last.added = Cardinality(stored)
                    /\ last.skipped >= Cardinality(failed)

\* C18: a status update, a field edit or a delete whose storage write failed
\* ends as an error for its caller: the handler does not report the status
\* change, the edit or the deletion as done.
C18_WriteFailurePropagates ==
    (last.op \in {"status", "edit", "delete"} /\ last.fault) =>
        /\ last.shown \in {"exception", "error"}
        /\ last.shown # "success"

\* C19: in an import a failure on one row is isolated to that row: the batch
\* continues, so that every row of the file reaches an outcome, and a valid
\* row whose own write did not fail is persisted whatever happened to the
\* other rows.
C19_RowFailureIsolated ==
    (last.op = "import" /\ ~last.lacking) =>
        /\ Len(last.rows) = Len(last.file.rows)
        /\ \A i \in DOMAIN last.rows :
            (last.rows[i].valid /\ last.rows[i].out # "failed") =>
                last.rows[i].out = "persisted"

\* C20: every submitted row ends either persisted, after it passed
\* validation, or rejected: a record is stored only for a row that is valid,
\* nothing is stored for the other rows, and without a storage failure each
\* row ends in one of the two terminal states.
C20_RowLifecycle ==
    [][last'.op \in {"manual", "import"} =>
        LET stored == {i \in DOMAIN last'.rows : last'.rows[i].out = "persisted"}
        IN  /\ \A i \in stored :
                /\ last'.rows[i].valid
                /\ \E r \in projects' \ projects : r.id = last'.rows[i].id
            /\ Cardinality(projects' \ projects) = Cardinality(stored)
            /\ ~last'.fault =>
                \A i \in DOMAIN last'.rows :
                    last'.rows[i].out \in {"persisted", "rejected"}]_vars

\* C21: every newly created record starts with status Issued or Draft, on the
\* manual path and on the CSV path: right after its create the status of the
\* record is never Retired or any other value.
C21_NewRecordIssuedOrDraft ==
    [][\A r \in projects' :
        ~HasId(projects, r.id) => r.status \in {Str(Issued), Str(Draft)}]_vars

\* C22: after its creation the status of a record is changed only by a status
\* update: an edit of the fields, an update of the verified flag, the update
\* of the record hash and on-chain fields, and every other handler leave the
\* status of every stored record as it was.
C22_StatusOnlyByUpdateStatus ==
    [][last'.op # "status" =>
        \A r \in projects : \A q \in projects' :
            q.id = r.id => q.status = r.status]_vars

\* an edit or a verification has been stored for a record that is Retired
C22_EditedRetired ==
    /\ last.op \in {"edit", "verify"}
    /\ ~last.fault
    /\ \E r \in projects : r.id = last.target /\ r.status = Str(Retired)

\* C23: a create persists the record together with its record_hash: every
\* stored record carries a record hash, whatever the outcome of the
\* ingestion that stored it.
C23_RecordHashPresent ==
    \A r \in projects : r.record_hash # NoneV /\ r.record_hash.t = "hash"

\* C24: the record hash is a point-in-time fingerprint: once a record has its
\* hash, no later handler (status update, delete of another record) changes
\* it, and the anchoring update made by the create writes the hash of the
\* fields the record was created with.
C24_RecordHashFixed ==
    [][/\ \A r \in projects : \A q \in projects' :
            (q.id = r.id /\ r.record_hash # NoneV) => q.record_hash = r.record_hash
       /\ \A q \in projects' :
            (~HasId(projects, q.id) /\ q.record_hash # NoneV) =>
                /\ q.record_hash.t = "hash"
                /\ q.record_hash.of.id = q.id
                /\ q.record_hash.of.area_ha = q.area_ha
                /\ q.record_hash.of.carbon_tonnes = q.carbon_tonnes]_vars

\* a status update has retired a record that carries its hash and whose
\* anchoring transaction was sent
C24_RetiredAnchored ==
    /\ last.op = "status"
    /\ ~last.fault
    /\ \E r \in projects :
        /\ r.id = last.target
        /\ r.status = Str(Retired)
        /\ r.record_hash # NoneV
        /\ r.onchain_status = Str("pending")

\* C25: every stored record has a carbon_tonnes that is a number >= 0,
\* whether the value was supplied by the caller or derived by the estimator.
C25_CarbonNonNegative ==
    \A r \in projects : r.carbon_tonnes.t = "num" /\ r.carbon_tonnes.n >= 0

\* C26: the start-up on a table of an older schema keeps every row that was
\* there, leaves the table with area_ha, carbon_tonnes, credits, status and
\* created_at, gives every row 0.0 in an added numeric column and Issued in
\* an added status column, and a second start-up changes nothing.
C26_SchemaInitTolerant ==
    [][inits' = inits + 1 =>
        /\ Cardinality(projects') = Cardinality(projects)
        /\ \A r \in projects : \E q \in projects' : \A c \in DOMAIN r : q[c] = r[c]
        /\ {"area_ha", "carbon_tonnes", "credits", "status", "created_at"}
                \subseteq table_cols'
        /\ \A q \in projects' : \A c \in table_cols' \ table_cols :
            /\ c \in {"area_ha", "carbon_tonnes", "credits"} => q[c] = Num(0)
            /\ c = "status" => q[c] = Str(Issued)
        /\ inits >= 1 => (table_cols' = table_cols /\ projects' = projects)]_vars

\* C28: at the end of a bulk import the reported added is the number of
\* records the import inserted, added and skipped together are the number of
\* rows of the file, and a row that is not among the added left no record.
C28_SummaryMatchesStore ==
    [][(last'.op = "import" /\ ~last'.aborted /\ ~last'.lacking) =>
        /\ last'.added = Cardinality(projects' \ projects)
        /\ last'.added + last'.skipped = Len(last'.file.rows)
        /\ Cardinality({i \in DOMAIN last'.rows : last'.rows[i].out = "persisted"})
                = last'.added]_vars

\* C29: the bulk path does for a row what the single-record path does: when
\* the manual form and then an import of one row stored the same name, type,
\* region and area with the same supplied carbon and the same estimator
\* answers, the two records have the same carbon_tonnes, credits, status and
\* explanation.
C29_BulkAsSingle ==
    [][(/\ last.op = "manual" /\ last'.op = "import"
        /\ Len(last.rows) = 1 /\ Len(last'.rows) = 1
        /\ ~last.fault /\ ~last'.fault
        /\ last.rows[1].out = "persisted" /\ last'.rows[1].out = "persisted"
        /\ last.rows[1].supplied = last'.rows[1].supplied
        /\ Len(last.ests) = Len(last'.ests)
        /\ \A i \in DOMAIN last.ests :
                /\ last.ests[i].val = last'.ests[i].val
                /\ last.ests[i].expl = last'.ests[i].expl) =>
        \A m \in projects : \A q \in projects' :
            (/\ m.id = last.rows[1].id /\ q.id = last'.rows[1].id
             /\ m.name = q.name /\ m.type = q.type /\ m.region = q.region
             /\ m.area_ha = q.area_ha) =>
                /\ m.carbon_tonnes = q.carbon_tonnes
                /\ m.credits = q.credits
                /\ m.status = q.status
                /\ m.explanation = q.explanation]_vars

C30_InsertAtomic ==
    [][\A t \in Callers :
        /\ (pc[t].at = "commit" /\ pc'[t].at = "idle") => HasId(projects', pc[t].id)
        /\ \A u \in Callers \ {t} :
            (/\ pc[t].at = "commit"
             /\ HasId(View(conn_tx, projects, next_id).P, pc[t].id)
             /\ pc[u].at \in {"begin", "check"}
             /\ pc'[u].at = "idle"
             /\ projects' = projects) =>
                HasId(View(conn_tx', projects', next_id').P, pc[t].id)]_vars

====
